---- MODULE Spec2Model ----
(***************************************************************************)
(* Model of the MacCMS V10 compatibility adapter of tesla-gameapi:         *)
(*   src/src/lib/maccms.cache.ts   retry handler, error handler, cache     *)
(*                                  headers, transformer                    *)
(*   src/unnamed/part_002           EpornerClient (provider client)         *)
(*   src/src/lib/maccms.params.ts  parameter processor                     *)
(*   src/src/app/api/maccms/route.ts  GET dispatcher and its handlers      *)
(*                                                                         *)
(* Two specifications:                                                     *)
(*   SpecRetry  MacCMSRetryHandler.withRetry driven by an arbitrary        *)
(*              operation and arbitrary (maxRetries, delay, backoff)       *)
(*   Spec       one GET request from the raw query to the response         *)
(***************************************************************************)
EXTENDS Integers, Sequences, FiniteSets, TLC

VARIABLES
  \* ---- MacCMSRetryHandler.withRetry (one activation) ----
  rpc,        \* position: "idle" | "call" | "sleep" | "returned" | "thrown"
  fn,         \* which operation is wrapped: "op" | "search" | "detail"
  fnArg,      \* the arguments the wrapped closure passes on
  maxRetries, \* parameter maxRetries
  delay,      \* parameter delay (ms)
  backoff,    \* parameter backoff
  attempt,    \* loop variable attempt
  lastError,  \* local lastError (<<>> while undefined, <<e>> once assigned)
  rresult,    \* <<v>>: value returned, or value thrown, by withRetry
  outcomes,   \* history: what each invocation of fn did, in order
  waits,      \* history: the waitTime of every sleep() call, in order
  gaps,       \* history: time that passed between a failure and the next attempt
  sleepLeft,  \* remaining time of the pending setTimeout
  elapsed,    \* time elapsed since the sleep began
  calls,      \* history: number of invocations of the wrapped function so far
  \* ---- one GET request ----
  pc,         \* position of the request
  raw,        \* the raw query (MacCMSParams)
  params,     \* ProcessedParams
  cacheTime,  \* <<>> until getCacheTime() resolved, then <<seconds>>
  idx,        \* handleVideoDetail: index of the id being looked up
  videoList,  \* handleVideoDetail: accumulator
  lookups,    \* history: per requested id, TRUE iff its lookup succeeded
  logged,     \* history: MacCMSErrorHandler.logError calls, <<type, context>>
  recorded,   \* history: MacCMSPerformanceMonitor.recordExecutionTime calls
  response,   \* <<>> while pending, else <<NextResponse>>
  verdict,    \* <<>> until validateParams ran, then <<its result>>
  rejection,  \* <<>> unless GET itself rejected, else <<thrown value>>
  \* ---- MacCMSErrorHandler.handleApiError on its own ----
  thrown,     \* <<>>, or <<the value handed to handleApiError>>
  classified, \* <<>> until handleApiError ran, then <<what it did>>
  \* ---- MacCMSPerformanceMonitor ----
  metrics,    \* the static Map metrics: operation name -> window of samples
  counts,     \* history: number of recordExecutionTime calls per operation
  reqs,       \* the GET requests in flight against the shared metrics
  \* ---- cache-key generation on its own ----
  keyInput,   \* <<>>, or <<the arguments of the generateCacheKey call>>
  cacheKey    \* the keys returned by the calls made so far, in order

rvars == <<rpc, fn, fnArg, maxRetries, delay, backoff, attempt, lastError, rresult,
           outcomes, waits, gaps, sleepLeft, elapsed, calls>>
gvars == <<pc, raw, params, cacheTime, idx, videoList, lookups, logged,
           recorded, response, verdict, rejection>>
hvars == <<thrown, classified, metrics, counts, reqs, keyInput, cacheKey>>
vars == <<rvars, gvars, hvars>>

(***************************************************************************)
(* Bounds of the model                                                     *)
(***************************************************************************)
MaxAttempts == 3     \* largest maxRetries tried in SpecRetry
TickMs == 500        \* granularity of the passage of time
MaxIdTokens == 3     \* most tokens in the raw ids parameter
MaxPageVideos == 12  \* most records on a provider page

(***************************************************************************)
(* Values: thrown values and data returned by the provider                 *)
(***************************************************************************)
\* A JavaScript value that can be thrown. response is <<>> when the value has
\* no response property and <<status>> when it has response.status; id tells
\* the error objects of different invocations apart.
MkErr(n, c, r, t, m, i) ==
  [nullish |-> FALSE, name |-> n, code |-> c, response |-> r,
   type |-> t, message |-> m, id |-> i]

\* undefined / null used as a thrown value
Undefined ==
  [nullish |-> TRUE, name |-> "", code |-> "", response |-> <<>>,
   type |-> "", message |-> "", id |-> 0]

NoErr == MkErr("", "", <<>>, "", "", 0)

ErrorType_VALIDATION == "VALIDATION_ERROR"
ErrorType_API_ERROR == "API_ERROR"
ErrorType_NETWORK_ERROR == "NETWORK_ERROR"
ErrorType_RATE_LIMIT == "RATE_LIMIT_ERROR"
ErrorType_TIMEOUT == "TIMEOUT_ERROR"
ErrorType_UNKNOWN == "UNKNOWN_ERROR"

\* Data a provider call (or the wrapped operation) resolves with.
NoData ==
  [kind |-> "none", id |-> <<>>, total_count |-> 0, current_page |-> 0,
   total_pages |-> 0, videos |-> <<>>]
OpValue == [NoData EXCEPT !.kind = "value"]
Video(id) == [NoData EXCEPT !.kind = "video", !.id = id]

\* What one invocation of the wrapped function did.
Returned(v, f) == [ok |-> TRUE, val |-> v, err |-> NoErr, fetch |-> f]
Threw(e, f) == [ok |-> FALSE, val |-> NoData, err |-> e, fetch |-> f]

(***************************************************************************)
(* MacCMSRetryHandler                                                      *)
(***************************************************************************)
RECURSIVE Pow(_, _)
\* Math.pow on the non-negative integers
Pow(b, e) == IF e <= 0 THEN 1 ELSE b * Pow(b, e - 1)

\* error.response?.status as a test: has a status, and it satisfies P
HasStatus(e) == Len(e.response) > 0

shouldNotRetry_no4xx(error) ==
  error.type = ErrorType_VALIDATION

shouldNotRetry(error) ==
  IF HasStatus(error) /\ error.response[1] >= 400 /\ error.response[1] < 500
    THEN TRUE
  ELSE IF error.type = ErrorType_VALIDATION
    THEN TRUE
  ELSE FALSE

WaitTime_offByOne(d, b, a) == d * Pow(b, a)

\* const waitTime = delay * Math.pow(backoff, attempt - 1)
WaitTime(d, b, a) == d * Pow(b, a - 1)

(***************************************************************************)
(* MacCMSErrorHandler                                                      *)
(***************************************************************************)
\* createError(type, message, details): details is <<>> when undefined
createError(t, m, d) ==
  [type |-> t, message |-> m, details |-> d, timestamp |-> "Date.now()"]

\* Reading a property of undefined or null throws a TypeError: handleApiError
\* itself throws when it is handed such a value.
handleApiErrorThrows(error) == error.nullish

\* handleApiError(error) for a value whose properties can be read
handleApiError(error) ==
  IF error.name = "AbortError" \/ error.code = "ABORT_ERR"
    THEN createError(ErrorType_TIMEOUT, "request timeout", <<>>)
  ELSE IF error.code = "ENOTFOUND" \/ error.code = "ECONNREFUSED"
    THEN createError(ErrorType_NETWORK_ERROR, "network failure", <<>>)
  ELSE IF HasStatus(error) /\ error.response[1] = 429
    THEN createError(ErrorType_RATE_LIMIT, "rate limited", <<>>)
  ELSE IF HasStatus(error) /\ error.response[1] >= 400 /\ error.response[1] < 500
    THEN createError(ErrorType_API_ERROR, "bad request", <<>>)
  ELSE IF HasStatus(error) /\ error.response[1] >= 500
    THEN createError(ErrorType_API_ERROR, "server error", <<>>)
  ELSE createError(ErrorType_UNKNOWN, "unknown error", <<error.message>>)

\* handleValidationError(message)
handleValidationError(m) == createError(ErrorType_VALIDATION, m, <<>>)

(***************************************************************************)
(* EpornerClient.makeRequest: one provider request                         *)
(***************************************************************************)
\* What fetch() can do: resolve with a 2xx response whose body is the data,
\* resolve with a 2xx response whose body carries an error field, resolve
\* with a non-2xx status, reject because the 10 s timer aborted the request
\* (an AbortError), reject with a network error carrying a code, or reject
\* with a value that is not an Error.
Min(a, b) == IF a < b THEN a ELSE b

\* Math.ceil(a / b) for a >= 0, b > 0
CeilDiv(a, b) == (a + b - 1) \div b

\* the shapes of a successful search answer
PageShapes == {"full", "noPageCount", "noCurrentPage", "empty", "lastPage"}

FetchOutcomes ==
  { [k |-> "ok", status |-> 200, shape |-> sh] : sh \in {"video"} \cup PageShapes }
  \cup
  { [k |-> "bodyError", status |-> 200, shape |-> "n/a"] }
  \cup
  { [k |-> "http", status |-> st, shape |-> "n/a"] : st \in {404, 429, 500} }
  \cup
  { [k |-> kd, status |-> 0, shape |-> "n/a"] :
      kd \in {"abort", "refused", "nonError"} }

\* the records of the page the provider was asked for: per_page of them
\* while the matches last
PageVideos(total, page, perPage) ==
  LET left == total - (page - 1) * perPage
      n == IF left < 0 THEN 0 ELSE Min(left, perPage)
  IN  [i \in 1..Min(n, MaxPageVideos) |->
         Video([j \in 1..i |-> "v"])]

\* The provider's answer to a successful search: the page of results. The
\* provider counts its pages by the per_page it was asked for; it may leave
\* out total_pages or current_page, find nothing, or answer a page past the
\* end with its last page.
SearchPage(arg, shape) ==
  LET total == IF shape = "empty" THEN 0
               ELSE IF shape = "lastPage" THEN 5 ELSE 25
      pages == CeilDiv(total, arg.perPage)
      current == IF shape = "lastPage" THEN Min(arg.page, pages) ELSE arg.page
  IN  [NoData EXCEPT
         !.kind = "page",
         !.total_count = total,
         !.total_pages = IF shape = "noPageCount" THEN 0 ELSE pages,
         !.current_page = IF shape = "noCurrentPage" THEN 0 ELSE current,
         !.videos = PageVideos(total, current, arg.perPage)]

ProviderData(f, arg, shape) ==
  IF f = "detail" THEN Video(arg.id) ELSE SearchPage(arg, shape)

\* makeRequest(url): the result of one provider request, fo being what fetch did
makeRequest(f, arg, fo, i) ==
  IF fo.k = "ok" THEN Returned(ProviderData(f, arg, fo.shape), fo)
  ELSE IF fo.k = "http"
    \* throw new Error(`... ${response.status} ${response.statusText}`)
    THEN Threw(MkErr("Error", "", <<>>, "", "request failed: status", i), fo)
  ELSE IF fo.k = "bodyError"
    \* throw new Error(`... ${data.error}`)
    THEN Threw(MkErr("Error", "", <<>>, "", "api error", i), fo)
  ELSE IF fo.k = "abort"
    \* error.name === 'AbortError': throw new Error(<timeout message>)
    THEN Threw(MkErr("Error", "", <<>>, "", "request timeout", i), fo)
  ELSE IF fo.k = "refused"
    \* error instanceof Error: throw error
    THEN Threw(MkErr("Error", "ECONNREFUSED", <<>>, "", "connect refused", i), fo)
  \* throw new Error(<failure message>)
  ELSE Threw(MkErr("Error", "", <<>>, "", "request failed", i), fo)

(***************************************************************************)
(* The operation wrapped by withRetry                                      *)
(***************************************************************************)
NoFetch == [k |-> "n/a", status |-> 0, shape |-> "n/a"]

\* the arguments of a provider call: getVideoById(id) or
\* search(query, page, perPage, order)
NoArg == [id |-> <<>>, query |-> <<>>, page |-> 0, perPage |-> 0, order |-> ""]
DetailArg(id) == [NoArg EXCEPT !.id = id]
SearchArg(query, page, perPage, order) ==
  [NoArg EXCEPT !.query = query, !.page = page, !.perPage = perPage, !.order = order]

\* The values an arbitrary operation may throw: plain, abort, network,
\* carrying an HTTP status, or of type VALIDATION.
OpErrors(i) ==
  { MkErr("Error", "", <<>>, "", "failed", i),
    MkErr("AbortError", "", <<>>, "", "aborted", i),
    MkErr("Error", "ENOTFOUND", <<>>, "", "dns", i),
    MkErr("Error", "", <<>>, ErrorType_VALIDATION, "invalid", i) }
  \cup { MkErr("Error", "", <<st>>, "", "http", i) : st \in {399, 400, 429, 499, 500} }

\* Everything invocation number i of the wrapped function can do.
Outcomes(f, arg, i) ==
  IF f = "op"
    THEN {Returned(OpValue, NoFetch)} \cup {Threw(e, NoFetch) : e \in OpErrors(i)}
    ELSE {makeRequest(f, arg, fo, i) :
            fo \in {o \in FetchOutcomes :
                      o.k = "ok" => (o.shape = "video" <=> f = "detail")}}

(***************************************************************************)
(* MacCMSRetryHandler.withRetry as a state machine                         *)
(***************************************************************************)
Last(sq) == sq[Len(sq)]

RetryIdle ==
  /\ rpc = "idle" /\ fn = "none" /\ fnArg = NoArg
  /\ maxRetries = 0 /\ delay = 0 /\ backoff = 0 /\ attempt = 0
  /\ lastError = <<>> /\ rresult = <<>>
  /\ outcomes = <<>> /\ waits = <<>> /\ gaps = <<>>
  /\ sleepLeft = 0 /\ elapsed = 0 /\ calls = 0

\* The call withRetry(fn, n, d, b): the locals are set up and the loop
\* condition attempt <= maxRetries is evaluated for attempt = 1; with no
\* iteration at all the function ends in `throw lastError`.
WithRetryStart(f, arg, n, d, b) ==
  /\ fn' = f /\ fnArg' = arg
  /\ maxRetries' = n /\ delay' = d /\ backoff' = b
  /\ attempt' = 1
  /\ lastError' = <<>>
  /\ outcomes' = <<>> /\ waits' = <<>> /\ gaps' = <<>>
  /\ sleepLeft' = 0 /\ elapsed' = 0
  /\ UNCHANGED calls
  /\ IF 1 <= n
       THEN rpc' = "call" /\ rresult' = <<>>
       ELSE rpc' = "thrown" /\ rresult' = <<Threw(Undefined, NoFetch)>>

AfterFailure_retryPastLast(a, n, e) ==
  IF shouldNotRetry(e) THEN "throw" ELSE "sleep"

\* The catch block of the loop body: give up, or sleep and go round again.
AfterFailure(a, n, e) ==
  IF a = n THEN "throw"
  ELSE IF shouldNotRetry(e) THEN "throw"
  ELSE "sleep"

AfterSuccess_ignore(o) == "call"

\* return await fn()
AfterSuccess(o) == "returned"

\* One iteration of the loop up to its next await: fn is invoked and either
\* resolves (withRetry returns its value) or rejects (the catch block runs).
RetryCall ==
  /\ rpc = "call"
  /\ \E o \in Outcomes(fn, fnArg, Len(outcomes) + 1) :
       /\ outcomes' = Append(outcomes, o)
       /\ calls' = calls + 1
       /\ IF o.ok
            THEN /\ rpc' = AfterSuccess(o)
                 /\ rresult' = IF AfterSuccess(o) = "returned" THEN <<o>> ELSE <<>>
                 /\ UNCHANGED <<lastError, waits, sleepLeft, elapsed>>
            ELSE /\ lastError' = <<o.err>>
                 /\ IF AfterFailure(attempt, maxRetries, o.err) = "throw"
                      THEN /\ rpc' = "thrown"
                           /\ rresult' = <<o>>
                           /\ UNCHANGED <<waits, sleepLeft, elapsed>>
                      ELSE /\ rpc' = "sleep"
                           /\ rresult' = <<>>
                           /\ waits' = Append(waits, WaitTime(delay, backoff, attempt))
                           /\ sleepLeft' = WaitTime(delay, backoff, attempt)
                           /\ elapsed' = 0
  /\ UNCHANGED <<fn, fnArg, maxRetries, delay, backoff, attempt, gaps>>

\* Time passes while withRetry sleeps; the timer may fire late by one tick.
Tick ==
  /\ rpc = "sleep"
  /\ elapsed <= Last(waits)
  /\ sleepLeft' = sleepLeft - Min(TickMs, sleepLeft)
  /\ elapsed' = elapsed + TickMs
  /\ UNCHANGED <<rpc, fn, fnArg, maxRetries, delay, backoff, attempt, lastError,
                 rresult, outcomes, waits, gaps, calls>>

\* setTimeout(resolve, ms) resolves once ms have passed, not before
TimerFired(left) == left = 0

\* sleep() resolves: attempt++ and the loop condition is evaluated again.
RetryWake ==
  /\ rpc = "sleep"
  /\ TimerFired(sleepLeft)
  /\ gaps' = Append(gaps, elapsed)
  /\ attempt' = attempt + 1
  /\ IF attempt + 1 <= maxRetries
       THEN rpc' = "call" /\ rresult' = <<>>
       ELSE rpc' = "thrown" /\ rresult' = <<Threw(lastError[1], NoFetch)>>
  /\ sleepLeft' = 0 /\ elapsed' = 0
  /\ UNCHANGED <<fn, fnArg, maxRetries, delay, backoff, lastError, outcomes, waits,
                 calls>>

RetryDone == rpc \in {"returned", "thrown"}

(***************************************************************************)
(* MacCMSPerformanceMonitor                                                *)
(***************************************************************************)
operation == "maccms_api_request"

\* the operation names recordExecutionTime is called with
Operations ==
  {operation, operation \o "_search", operation \o "_category",
   operation \o "_error", "video_search", "category_list"}

\* the Map before any call: no operation has a window
NoMetrics == [op \in Operations |-> <<>>]
NoCounts == [op \in Operations |-> 0]

\* if (times.length > 100) times.shift()
WindowCap == 100

recordExecutionTime_dropNewest(m, op, duration) ==
  LET times == Append(m[op], duration)
  IN  [m EXCEPT ![op] = IF Len(times) > WindowCap THEN SubSeq(times, 1, WindowCap)
                        ELSE times]

recordExecutionTime_alwaysReset(m, op, duration) ==
  [m EXCEPT ![op] = <<duration>>]

\* recordExecutionTime(operation, startTime): the window of the operation
\* is created when missing, the duration is pushed and the oldest sample is
\* shifted out once the window holds more than 100. (The slow-query
\* warning writes to the console only.)
recordExecutionTime(m, op, duration) ==
  LET times == Append(m[op], duration)
  IN  [m EXCEPT ![op] = IF Len(times) > WindowCap THEN Tail(times) ELSE times]

\* nothing outside one GET request and its withRetry calls has happened
HarnessIdle ==
  /\ thrown = <<>> /\ classified = <<>>
  /\ metrics = NoMetrics /\ counts = NoCounts /\ reqs = <<>>
  /\ keyInput = <<>> /\ cacheKey = <<>>

(***************************************************************************)
(* SpecRetry: withRetry around an arbitrary operation                      *)
(***************************************************************************)
GetIdle ==
  /\ pc = "idle" /\ raw = <<>> /\ params = <<>> /\ cacheTime = <<>> /\ idx = 0
  /\ videoList = <<>> /\ lookups = <<>> /\ logged = <<>> /\ recorded = <<>>
  /\ response = <<>> /\ verdict = <<>> /\ rejection = <<>>

Init == RetryIdle /\ GetIdle /\ HarnessIdle

\* A caller invokes withRetry(op, n, d, b).
CallWithRetry ==
  /\ rpc = "idle"
  /\ \E n \in -1..MaxAttempts, d \in {500, 1000}, b \in {1, 2} :
       WithRetryStart("op", NoArg, n, d, b)
  /\ UNCHANGED <<gvars, hvars>>

NextRetry ==
  \/ CallWithRetry
  \/ (RetryCall /\ UNCHANGED <<gvars, hvars>>)
  \/ (Tick /\ UNCHANGED <<gvars, hvars>>)
  \/ (RetryWake /\ UNCHANGED <<gvars, hvars>>)

SpecRetry == Init /\ [][NextRetry]_vars

(***************************************************************************)
(* Strings: a string is a sequence of one-character strings; an optional   *)
(* value is <<>> (undefined) or <<v>>                                      *)
(***************************************************************************)
Absent == <<>>
Some(v) == <<v>>

\* JavaScript truthiness of an optional string: defined and not empty
Truthy(o) == o # <<>> /\ o[1] # <<>>

\* the same for the parameters kept as whole words (ac, order, by)
TruthyWord(o) == o # <<>> /\ o[1] # ""

Digits == <<"0", "1", "2", "3", "4", "5", "6", "7", "8", "9">>
LowerLetters ==
  <<"a", "b", "c", "d", "e", "f", "g", "h", "i", "j", "k", "l", "m",
    "n", "o", "p", "q", "r", "s", "t", "u", "v", "w", "x", "y", "z">>
UpperLetters ==
  <<"A", "B", "C", "D", "E", "F", "G", "H", "I", "J", "K", "L", "M",
    "N", "O", "P", "Q", "R", "S", "T", "U", "V", "W", "X", "Y", "Z">>

Range(sq) == {sq[i] : i \in 1..Len(sq)}
IndexOf(sq, c) == CHOOSE i \in 1..Len(sq) : sq[i] = c

\* \s
IsWhitespace(c) == c \in {" ", "\t", "\n"}
\* [<>"'&]
IsHtmlChar(c) == c \in {"<", ">", "\"", "'", "&"}
\* [a-zA-Z0-9]
IsAlnum(c) == c \in Range(Digits) \cup Range(LowerLetters) \cup Range(UpperLetters)
\* the separator class of the id list: ASCII and full-width comma and
\* semicolon (written "U+FF0C" and "U+FF1B" here), and \s
IsIdSeparator(c) == c \in {",", "U+FF0C", ";", "U+FF1B"} \/ IsWhitespace(c)

RECURSIVE TrimStart(_)
TrimStart(s) ==
  IF s # <<>> /\ IsWhitespace(Head(s)) THEN TrimStart(Tail(s)) ELSE s

RECURSIVE TrimEnd(_)
TrimEnd(s) ==
  IF s # <<>> /\ IsWhitespace(s[Len(s)]) THEN TrimEnd(SubSeq(s, 1, Len(s) - 1)) ELSE s

\* String.prototype.trim
Trim(s) == TrimEnd(TrimStart(s))

NotHtmlChar(c) == ~IsHtmlChar(c)
\* .replace(/[<>"'&]/g, '')
RemoveHtmlChars(s) == SelectSeq(s, NotHtmlChar)

\* .replace(/\s+/g, ' '): every run of whitespace becomes one space (the
\* first character of a run is kept, as a space; the others are dropped)
CollapseWhitespace(s) ==
  LET StartsRunOrText(i) ==
        ~IsWhitespace(s[i]) \/ i = 1 \/ ~IsWhitespace(s[i - 1])
      kept == SelectSeq([i \in 1..Len(s) |-> i], StartsRunOrText)
  IN  [k \in 1..Len(kept) |-> IF IsWhitespace(s[kept[k]]) THEN " " ELSE s[kept[k]]]

\* .substring(0, n)
Substring0(s, n) == SubSeq(s, 1, Min(Len(s), n))

RECURSIVE DigitPrefix(_)
\* the longest prefix of s made of decimal digits
DigitPrefix(s) ==
  IF s # <<>> /\ Head(s) \in Range(Digits)
    THEN <<Head(s)>> \o DigitPrefix(Tail(s))
    ELSE <<>>

RECURSIVE DigitsValue(_, _)
\* the number written by the digits ds in the given radix
DigitsValue(ds, radix) ==
  IF ds = <<>> THEN 0
  ELSE DigitsValue(SubSeq(ds, 1, Len(ds) - 1), radix) * radix + ds[Len(ds)]

\* parseInt(s, 10): <<>> for NaN, else <<n>>. Leading whitespace is skipped,
\* a sign is accepted, and parsing stops at the first non-digit.
ParseInt10(s) ==
  LET t == TrimStart(s)
      neg == t # <<>> /\ Head(t) = "-"
      u == IF t # <<>> /\ Head(t) \in {"-", "+"} THEN Tail(t) ELSE t
      ds == DigitPrefix(u)
      n == DigitsValue([i \in 1..Len(ds) |-> IndexOf(Digits, ds[i]) - 1], 10)
  IN  IF ds = <<>> THEN <<>> ELSE IF neg THEN <<0 - n>> ELSE <<n>>

Base36Char(c) == c \in Range(Digits) \cup Range(LowerLetters) \cup Range(UpperLetters)
Base36Value(c) ==
  IF c \in Range(Digits) THEN IndexOf(Digits, c) - 1
  ELSE IF c \in Range(LowerLetters) THEN IndexOf(LowerLetters, c) + 9
  ELSE IndexOf(UpperLetters, c) + 9

RECURSIVE Base36Prefix(_)
Base36Prefix(s) ==
  IF s # <<>> /\ Base36Char(Head(s))
    THEN <<Head(s)>> \o Base36Prefix(Tail(s))
    ELSE <<>>

\* parseInt(s, 36): <<>> for NaN, else <<n>> (ids carry no sign)
ParseInt36(s) ==
  LET ds == Base36Prefix(TrimStart(s))
  IN  IF ds = <<>> THEN <<>>
      ELSE <<DigitsValue([i \in 1..Len(ds) |-> Base36Value(ds[i])], 36)>>

RECURSIVE SplitIds(_)
\* .split(/[,;\s]+/) (with the full-width forms): the pieces between runs of separators (a leading
\* or trailing run yields an empty piece)
SplitIds(s) ==
  LET RECURSIVE Piece(_)
      Piece(t) == IF t # <<>> /\ ~IsIdSeparator(Head(t))
                    THEN <<Head(t)>> \o Piece(Tail(t)) ELSE <<>>
      RECURSIVE SkipSeps(_)
      SkipSeps(t) == IF t # <<>> /\ IsIdSeparator(Head(t)) THEN SkipSeps(Tail(t)) ELSE t
      first == Piece(s)
      rest == SubSeq(s, Len(first) + 1, Len(s))
  IN  IF rest = <<>> THEN <<first>>
      ELSE <<first>> \o SplitIds(SkipSeps(rest))

(***************************************************************************)
(* MacCMSParamsProcessor                                                   *)
(***************************************************************************)
DEFAULT_PAGE == 1
DEFAULT_LIMIT == 20
MAX_LIMIT == 100
MIN_LIMIT == 1
MaxVideoIds == 10
MaxKeywordLen == 100

\* ac?.toLowerCase() on the action names the model feeds in
ToLowerCase(w) ==
  CASE w = "LIST" -> "list"
    [] w = "Detail" -> "detail"
    [] OTHER -> w

determineAction_wdFirst(q) ==
  LET ac == IF q.ac = <<>> THEN "" ELSE ToLowerCase(q.ac[1])
      hasWd == Truthy(q.wd) /\ Trim(q.wd[1]) # <<>>
  IN  IF hasWd THEN "search"
      ELSE IF ac = "detail" \/ Truthy(q.ids) THEN "detail"
      ELSE IF ac = "list" \/ (q.t = Some(<<"0">>) /\ ac = "videolist") THEN "category"
      ELSE "list"

determineAction_listIsList(q) ==
  LET ac == IF q.ac = <<>> THEN "" ELSE ToLowerCase(q.ac[1])
      hasWd == Truthy(q.wd) /\ Trim(q.wd[1]) # <<>>
  IN  IF ac = "detail" \/ Truthy(q.ids) THEN "detail"
      ELSE IF ac = "list" \/ ac = "videolist"
        THEN IF hasWd THEN "search"
             ELSE IF q.t = Some(<<"0">>) THEN "category"
             ELSE "list"
      ELSE IF hasWd THEN "search"
      ELSE "list"

\* determineAction(params)
determineAction(q) ==
  LET ac == IF q.ac = <<>> THEN "" ELSE ToLowerCase(q.ac[1])
      hasWd == Truthy(q.wd) /\ Trim(q.wd[1]) # <<>>
  IN  IF ac = "detail" \/ Truthy(q.ids) THEN "detail"
      ELSE IF ac = "list" \/ ac = "videolist"
        THEN IF hasWd THEN "search"
             ELSE IF q.t = Some(<<"0">>) \/ ac = "list" THEN "category"
             ELSE "list"
      ELSE IF hasWd THEN "search"
      ELSE IF Truthy(q.ids) THEN "detail"
      ELSE "list"

parsePage_zeroKept(pg) ==
  IF ~Truthy(pg) THEN DEFAULT_PAGE
  ELSE LET page == ParseInt10(pg[1])
       IN  IF page = <<>> \/ page[1] < 0 THEN DEFAULT_PAGE ELSE page[1]

\* parsePage(pageStr)
parsePage(pg) ==
  IF ~Truthy(pg) THEN DEFAULT_PAGE
  ELSE LET page == ParseInt10(pg[1])
       IN  IF page = <<>> \/ page[1] < 1 THEN DEFAULT_PAGE ELSE page[1]

parseLimit_lowToDefault(l) ==
  IF ~Truthy(l) THEN DEFAULT_LIMIT
  ELSE LET limit == ParseInt10(l[1])
       IN  IF limit = <<>> \/ limit[1] < MIN_LIMIT THEN DEFAULT_LIMIT
           ELSE IF limit[1] > MAX_LIMIT THEN MAX_LIMIT
           ELSE limit[1]

\* parseLimit(limitStr)
parseLimit(l) ==
  IF ~Truthy(l) THEN DEFAULT_LIMIT
  ELSE LET limit == ParseInt10(l[1])
       IN  IF limit = <<>> THEN DEFAULT_LIMIT
           ELSE IF limit[1] < MIN_LIMIT THEN MIN_LIMIT
           ELSE IF limit[1] > MAX_LIMIT THEN MAX_LIMIT
           ELSE limit[1]

\* parseKeyword(keyword)
parseKeyword(wd) ==
  IF ~Truthy(wd) \/ Trim(wd[1]) = <<>> THEN Absent
  ELSE Some(Substring0(CollapseWhitespace(RemoveHtmlChars(Trim(wd[1]))), MaxKeywordLen))

\* parseCategoryId(categoryStr)
parseCategoryId(t) ==
  IF ~Truthy(t) THEN Absent ELSE ParseInt10(t[1])

ValidIdToken(tok) == Len(tok) > 0 /\ \A i \in 1..Len(tok) : IsAlnum(tok[i])

\* parseVideoIds(idsStr)
parseVideoIds(ids) ==
  IF ~Truthy(ids) \/ Trim(ids[1]) = <<>> THEN Absent
  ELSE LET pieces == SplitIds(ids[1])
           trimmed == [i \in 1..Len(pieces) |-> Trim(pieces[i])]
       IN  Some(Substring0(SelectSeq(trimmed, ValidIdToken), MaxVideoIds))

\* parseOrder(order, by)
parseOrder(order, by) ==
  LET orderStr == IF TruthyWord(order) THEN order[1]
                  ELSE IF TruthyWord(by) THEN by[1] ELSE ""
  IN  CASE orderStr \in {"time", "addtime", "latest", "desc"} -> "latest"
        [] orderStr \in {"duration", "long", "longest"} -> "longest"
        [] orderStr \in {"short", "shortest"} -> "shortest"
        [] orderStr \in {"score", "rate", "rating", "top"} -> "top-rated"
        [] orderStr \in {"hits", "views", "popular"} -> "most-viewed"
        [] OTHER -> "latest"

\* A Date: whole seconds since the epoch and the milliseconds beyond them.
Date(sec, millis) == [s |-> sec, ms |-> millis]

\* /^\d{n}$/.test(str)
IsDigits(str, n) == Len(str) = n /\ \A i \in 1..n : str[i] \in Range(Digits)

DateText_20240101 == <<"2", "0", "2", "4", "-", "0", "1", "-", "0", "1">>
DateText_20241231 == <<"2", "0", "2", "4", "-", "1", "2", "-", "3", "1">>
DateText_slash == <<"2", "0", "2", "4", "/", "0", "1", "/", "0", "2">>

\* new Date(dateStr) on the date texts of the model: <<>> for an Invalid
\* Date. A date-only ISO text is midnight UTC; the slash form is read as
\* local time (UTC here).
NewDate(str) ==
  CASE str = DateText_20240101 -> <<Date(1704067200, 0)>>
    [] str = DateText_20241231 -> <<Date(1735603200, 0)>>
    [] str = DateText_slash -> <<Date(1704153600, 0)>>
    [] OTHER -> <<>>

\* the number written by a text of decimal digits
DecimalValue(str) ==
  DigitsValue([i \in 1..Len(str) |-> IndexOf(Digits, str[i]) - 1], 10)

\* parseDate(dateStr): <<>> for undefined
parseDate(str) ==
  IF IsDigits(str, 10) THEN <<Date(DecimalValue(str), 0)>>
  ELSE IF IsDigits(str, 13)
    THEN <<Date(DecimalValue(SubSeq(str, 1, 10)), DecimalValue(SubSeq(str, 11, 13)))>>
  ELSE NewDate(str)

MaxHours == 8760
SecondsPerHour == 3600

\* the object timeRange; a property is <<>> when it is not set
TimeRange(start, end) == [start |-> start, end |-> end]

parseTimeRange_explicitFirst(start, end, hours, now) ==
  LET st == IF Truthy(start) THEN parseDate(start[1]) ELSE <<>>
      en == IF Truthy(end) THEN parseDate(end[1]) ELSE <<>>
      h == IF Truthy(hours) THEN ParseInt10(hours[1]) ELSE <<>>
  IN  IF st # <<>> \/ en # <<>> THEN <<TimeRange(st, en)>>
      ELSE IF h # <<>> /\ h[1] > 0 /\ h[1] <= MaxHours
        THEN <<TimeRange(<<Date(now.s - h[1] * SecondsPerHour, now.ms)>>, <<now>>)>>
      ELSE <<>>

\* parseTimeRange(start, end, hours), now being what new Date() returns:
\* <<>> for undefined
parseTimeRange(start, end, hours, now) ==
  LET h == IF Truthy(hours) THEN ParseInt10(hours[1]) ELSE <<>>
      st == IF Truthy(start) THEN parseDate(start[1]) ELSE <<>>
      en == IF Truthy(end) THEN parseDate(end[1]) ELSE <<>>
  IN  IF h # <<>> /\ h[1] > 0 /\ h[1] <= MaxHours
        THEN <<TimeRange(<<Date(now.s - h[1] * SecondsPerHour, now.ms)>>, <<now>>)>>
      ELSE IF st = <<>> /\ en = <<>> THEN <<>>
      ELSE <<TimeRange(st, en)>>

\* what new Date() can return while a request is parsed
ClockTimes == {Date(1750000000, 250), Date(1750003600, 0)}

\* parseParams(params)
parseParams(q, now) ==
  [action |-> determineAction(q),
   keyword |-> parseKeyword(q.wd),
   page |-> parsePage(q.pg),
   limit |-> parseLimit(q.limit),
   categoryId |-> parseCategoryId(q.t),
   videoIds |-> parseVideoIds(q.ids),
   filters |-> [order |-> parseOrder(q.order, Absent),
                timeRange |-> parseTimeRange(q.start, q.end, q.h, now)]]

validateParams_noIdCheck(p) ==
  IF p.action = "search" /\ ~Truthy(p.keyword)
    THEN <<"search keyword must not be empty">>
  ELSE IF p.page < 1
    THEN <<"page must be greater than 0">>
  ELSE IF p.limit < MIN_LIMIT \/ p.limit > MAX_LIMIT
    THEN <<"limit must be within MIN_LIMIT-MAX_LIMIT">>
  ELSE <<>>

validateParams_limitUnbounded(p) ==
  IF p.action = "search" /\ ~Truthy(p.keyword)
    THEN <<"search keyword must not be empty">>
  ELSE IF p.action = "detail" /\ (p.videoIds = <<>> \/ Len(p.videoIds[1]) = 0)
    THEN <<"video id must not be empty">>
  ELSE IF p.page < 1
    THEN <<"page must be greater than 0">>
  ELSE IF p.limit < MIN_LIMIT
    THEN <<"limit must be within MIN_LIMIT-MAX_LIMIT">>
  ELSE <<>>

\* validateParams(params): <<>> when valid, else <<message>>
validateParams(p) ==
  IF p.action = "search" /\ ~Truthy(p.keyword)
    THEN <<"search keyword must not be empty">>
  ELSE IF p.action = "detail" /\ (p.videoIds = <<>> \/ Len(p.videoIds[1]) = 0)
    THEN <<"video id must not be empty">>
  ELSE IF p.page < 1
    THEN <<"page must be greater than 0">>
  ELSE IF p.limit < MIN_LIMIT \/ p.limit > MAX_LIMIT
    THEN <<"limit must be within MIN_LIMIT-MAX_LIMIT">>
  ELSE <<>>

\* EpornerClient.sanitizeQuery(query)
sanitizeQuery(query) == Substring0(RemoveHtmlChars(Trim(query)), MaxKeywordLen)

(***************************************************************************)
(* MacCMSCacheManager, MacCMSTransformer, response bodies                  *)
(***************************************************************************)
\* MacCMSCacheManager.getCacheTime(type)
getCacheTime(type) ==
  CASE type = "search" -> 600
    [] type = "detail" -> 1800
    [] type = "category" -> 3600
    [] type = "error" -> 60
    [] OTHER -> 300

createCachedResponse_cdnDefault(data, cacheType) ==
  [body |-> data,
   status |-> 200,
   maxAge |-> getCacheTime(cacheType),
   sMaxAge |-> getCacheTime(cacheType),
   cdnSMaxAge |-> getCacheTime("default"),
   vercelSMaxAge |-> getCacheTime("default"),
   xCacheType |-> cacheType,
   xCacheTTL |-> getCacheTime(cacheType)]

\* MacCMSCacheManager.createCachedResponse(data, cacheType):
\* NextResponse.json(data, {headers}) with no status option, which is 200
createCachedResponse(data, cacheType) ==
  [body |-> data,
   status |-> 200,
   maxAge |-> getCacheTime(cacheType),
   sMaxAge |-> getCacheTime(cacheType),
   cdnSMaxAge |-> getCacheTime(cacheType),
   vercelSMaxAge |-> getCacheTime(cacheType),
   xCacheType |-> cacheType,
   xCacheTTL |-> getCacheTime(cacheType)]

\* A response body: keys is the set of properties the object has.
Body(code, msg, page, pagecount, limit, total, list, class, error, keys) ==
  [code |-> code, msg |-> msg, page |-> page, pagecount |-> pagecount,
   limit |-> limit, total |-> total, list |-> list, class |-> class,
   error |-> error, keys |-> keys]

BaseKeys == {"code", "msg", "page", "pagecount", "limit", "total"}

\* MacCMSErrorHandler.createErrorResponse(error)
createErrorResponse(e) ==
  Body(0, e.message, 1, 0, 0, 0, <<>>, <<>>,
       <<[type |-> e.type, timestamp |-> e.timestamp, details |-> e.details]>>,
       BaseKeys \cup {"list", "error"})

\* MacCMSTransformer.transformVideo(video, vodId): the fields of the legacy
\* record that vary with the upstream record are its id and what is derived
\* from the upstream fields (here: the upstream id behind the play URL).
transformVideo(video, vodId) ==
  [vod_id |-> vodId, vod_play_from |-> "Eporner", vod_play_url |-> video.id,
   type_id |-> 3]

\* parseInt(id, 36) || 1
DetailVodId(id) ==
  LET n == ParseInt36(id) IN IF n = <<>> \/ n[1] = 0 THEN 1 ELSE n[1]

transformSearchResponse_floorPages(r, page, limit) ==
  Body(1, "data list",
       IF r.current_page # 0 THEN r.current_page ELSE page,
       IF r.total_pages # 0 THEN r.total_pages ELSE r.total_count \div limit,
       limit,
       IF r.total_count # 0 THEN r.total_count ELSE Len(r.videos),
       [i \in 1..Len(r.videos) |->
          transformVideo(r.videos[i], (page - 1) * limit + (i - 1) + 1)],
       <<>>, <<>>, BaseKeys \cup {"list"})

\* MacCMSTransformer.transformSearchResponse(epornerResponse, page, limit)
transformSearchResponse(r, page, limit) ==
  Body(1, "data list",
       IF r.current_page # 0 THEN r.current_page ELSE page,
       IF r.total_pages # 0 THEN r.total_pages ELSE CeilDiv(r.total_count, limit),
       limit,
       IF r.total_count # 0 THEN r.total_count ELSE Len(r.videos),
       [i \in 1..Len(r.videos) |->
          transformVideo(r.videos[i], (page - 1) * limit + (i - 1) + 1)],
       <<>>, <<>>, BaseKeys \cup {"list"})

\* MacCMSTransformer.generateCategories()
generateCategories ==
  << [type_id |-> 3, type_name |-> "ethics", type_sort |-> 3, type_mid |-> 1,
      type_pid |-> 0, type_status |-> 1] >>

\* the object literal maccmsData of handleVideoDetail
DetailBody(list) ==
  Body(1, "data list", 1, 1, Len(list), Len(list), list, <<>>, <<>>,
       BaseKeys \cup {"list"})

\* the object literal categoryData of handleCategoryList
CategoryBody(categories) ==
  Body(1, "data list", 1, 1, Len(categories), Len(categories), <<>>,
       categories, <<>>, BaseKeys \cup {"class"})

(***************************************************************************)
(* GET /api/maccms: one request                                            *)
(***************************************************************************)
RECURSIVE JoinIds(_)
\* the raw ids parameter written from a list of tokens, comma-separated
JoinIds(toks) ==
  IF toks = <<>> THEN <<>>
  ELSE IF Len(toks) = 1 THEN toks[1]
  ELSE toks[1] \o <<",">> \o JoinIds(Tail(toks))

IdTokens == { <<"a">>, <<"b">>, <<"!">> }
IdLists == UNION { [1..n -> IdTokens] : n \in 1..MaxIdTokens }

RawAc ==
  {Absent, Some("list"), Some("videolist"), Some("detail"), Some("LIST"),
   Some("category"), Some("invalid")}
RawWd == {Absent, Some(<<"a">>), Some(<<"<">>), Some(<<"<", " ", ">">>)}
RawIds == {Absent, Some(<<>>)} \cup {Some(JoinIds(l)) : l \in IdLists}
RawPg == {Absent, Some(<<"2">>), Some(<<"0">>)}
RawLimit == {Absent, Some(<<"7", "0">>), Some(<<"0">>)}
RawT == {Absent, Some(<<"0">>)}
RawOrder == {Absent, Some("hits")}

\* page 2 with limit 10, as a search and as a list
ScenarioQueries ==
  [ac : {Absent, Some("videolist")}, wd : {Absent, Some(<<"a">>)},
   ids : {Absent}, pg : {Some(<<"2">>)}, limit : {Some(<<"1", "0">>)},
   t : {Absent}, order : {Absent}, h : {Absent}, start : {Absent},
   end : {Absent}]

\* The raw queries fed to GET: every id list with and without ac=detail,
\* one id with every ac and wd, every ac and wd with at most one of
\* pg, limit, t and order given, and the queries for page 2 with limit 10.
RawQueries ==
  { q \in [ac : RawAc, wd : RawWd, ids : RawIds, pg : RawPg,
            limit : RawLimit, t : RawT, order : RawOrder,
            h : {Absent}, start : {Absent}, end : {Absent}] :
      LET extras == Cardinality({f \in {"pg", "limit", "t", "order"} : q[f] # Absent})
      IN  IF q.ids = Absent THEN extras <= 1
          ELSE /\ extras = 0
               /\ \/ q.ids = Some(<<"a">>)
                  \/ (q.wd = Absent /\ q.ac \in {Absent, Some("detail")}) }
  \cup ScenarioQueries

\* What awaiting getCacheTime() can do besides resolving: reject with an
\* Error, with an abort error, or with undefined/null.
ConfigRejections ==
  { MkErr("Error", "", <<>>, "", "config unavailable", 0),
    MkErr("AbortError", "", <<>>, "", "config timeout", 0),
    Undefined }

\* the values getCacheTime() resolves with
ConfigCacheTimes == {7200}

LogEntry(e, context) == [type |-> e.type, context |-> context]

ErrorResponse(e) == createCachedResponse(createErrorResponse(e), "error")

\* GET up to its first await: parse, validate, and either answer with the
\* validation error or go on to await getCacheTime().
GetStart ==
  /\ pc = "idle"
  /\ \E q \in RawQueries, now \in ClockTimes :
       LET p == parseParams(q, now)
           v == validateParams(p)
       IN  /\ raw' = q
           /\ params' = p
           /\ verdict' = <<v>>
           /\ IF v # <<>>
                THEN /\ logged' = Append(logged,
                           LogEntry(handleValidationError(v[1]), "Parameter Validation"))
                     /\ response' = <<ErrorResponse(handleValidationError(v[1]))>>
                     /\ pc' = "done"
                ELSE /\ pc' = "config"
                     /\ UNCHANGED <<logged, response>>
  /\ UNCHANGED <<cacheTime, idx, videoList, lookups, recorded, rejection>>
  /\ UNCHANGED <<rvars, hvars>>

\* await getCacheTime() rejects: the catch block of GET runs.
ConfigRejects ==
  /\ pc = "config"
  /\ \E e \in ConfigRejections :
       IF handleApiErrorThrows(e)
         THEN /\ pc' = "rejected"
              /\ rejection' = <<MkErr("TypeError", "", <<>>, "",
                                      "cannot read properties of undefined", 0)>>
              /\ UNCHANGED <<logged, recorded, response>>
         ELSE /\ pc' = "done"
              /\ logged' = Append(logged, LogEntry(handleApiError(e), "MacCMS API"))
              /\ recorded' = Append(recorded, operation \o "_error")
              /\ response' = <<ErrorResponse(handleApiError(e))>>
              /\ UNCHANGED rejection
  /\ UNCHANGED <<raw, params, cacheTime, idx, videoList, lookups, verdict>>
  /\ UNCHANGED <<rvars, hvars>>

\* the maxRetries argument of the withRetry calls of handleVideoSearch and
\* handleVideoList, and of handleVideoDetail
SearchRetryBudget == 3
DetailRetryBudget_asSearch == SearchRetryBudget
DetailRetryBudget == 2

GetRecorded_onlyWhole(rec, action) ==
  rec \o <<operation>>

\* the two recordExecutionTime calls of GET after the handler returned
GetRecorded(rec, action) ==
  rec \o <<operation, operation \o "_" \o action>>

\* Math.min(params.limit, 60)
PerPage(limit) == Min(limit, 60)

\* the arguments of epornerClient.search in handleVideoSearch
SearchCall(p) ==
  SearchArg(sanitizeQuery(p.keyword[1]), p.page, PerPage(p.limit), p.filters.order)

ListCall_byCategory(p) ==
  SearchArg(IF p.categoryId = <<>> THEN <<"p", "o", "p", "u", "l", "a", "r">>
            ELSE <<"c", "a", "t">>,
            p.page, PerPage(p.limit), p.filters.order)

\* the arguments of epornerClient.search in handleVideoList
ListCall(p) ==
  SearchArg(<<"p", "o", "p", "u", "l", "a", "r">>, p.page, PerPage(p.limit),
            p.filters.order)

\* await getCacheTime() resolves and GET dispatches on params.action; the
\* handler runs up to its first await (the provider call inside withRetry)
\* or, when it does not call the provider, to its end.
ConfigResolves ==
  /\ pc = "config"
  /\ \E seconds \in ConfigCacheTimes : cacheTime' = <<seconds>>
  /\ UNCHANGED <<raw, params, videoList, lookups, logged, verdict, rejection>>
  /\ UNCHANGED hvars
  /\ CASE params.action = "search" ->
            IF ~Truthy(params.keyword)
              THEN /\ response' = <<ErrorResponse(handleValidationError("keyword required"))>>
                   /\ recorded' = GetRecorded(recorded, "search")
                   /\ pc' = "done"
                   /\ UNCHANGED <<idx, rvars>>
            ELSE IF sanitizeQuery(params.keyword[1]) = <<>>
              THEN /\ response' = <<ErrorResponse(handleValidationError("keyword invalid"))>>
                   /\ recorded' = GetRecorded(recorded, "search")
                   /\ pc' = "done"
                   /\ UNCHANGED <<idx, rvars>>
            ELSE /\ WithRetryStart("search", SearchCall(params),
                                 SearchRetryBudget, 1000, 2)
                 /\ pc' = "search"
                 /\ UNCHANGED <<idx, recorded, response>>
       [] params.action = "detail" ->
            IF params.videoIds = <<>> \/ Len(params.videoIds[1]) = 0
              THEN /\ response' = <<ErrorResponse(handleValidationError("video id required"))>>
                   /\ recorded' = GetRecorded(recorded, "detail")
                   /\ pc' = "done"
                   /\ UNCHANGED <<idx, rvars>>
              ELSE /\ WithRetryStart("detail", DetailArg(params.videoIds[1][1]),
                                   DetailRetryBudget, 500, 2)
                   /\ idx' = 1
                   /\ pc' = "detail"
                   /\ UNCHANGED <<recorded, response>>
       [] params.action = "list" ->
            /\ WithRetryStart("search", ListCall(params),
                               SearchRetryBudget, 1000, 2)
            /\ pc' = "list"
            /\ UNCHANGED <<idx, recorded, response>>
       [] params.action = "category" ->
            /\ response' = <<createCachedResponse(CategoryBody(generateCategories), "category")>>
            /\ recorded' = GetRecorded(Append(recorded, "category_list"), "category")
            /\ pc' = "done"
            /\ UNCHANGED <<idx, rvars>>

\* The provider call in flight: withRetry runs (invocations, sleeps).
ProviderStep ==
  /\ pc \in {"search", "list", "detail"}
  /\ (RetryCall \/ Tick \/ RetryWake)
  /\ UNCHANGED <<gvars, hvars>>

\* handleVideoSearch / handleVideoList after withRetry settled, and the
\* rest of GET.
SearchResponse_defaultStamp(r, p) ==
  IF r.ok
    THEN createCachedResponse(transformSearchResponse(r.val, p.page, p.limit), "default")
    ELSE ErrorResponse(handleApiError(r.err))

SearchResponse(r, p) ==
  IF r.ok
    THEN createCachedResponse(transformSearchResponse(r.val, p.page, p.limit), "search")
    ELSE ErrorResponse(handleApiError(r.err))

SearchFinish ==
  /\ pc \in {"search", "list"}
  /\ RetryDone
  /\ response' = <<SearchResponse(rresult[1], params)>>
  /\ logged' = IF rresult[1].ok THEN logged
               ELSE Append(logged, LogEntry(handleApiError(rresult[1].err),
                                            IF pc = "search" THEN "Video Search" ELSE "Video List"))
  /\ recorded' = GetRecorded(
                   IF rresult[1].ok
                     THEN Append(recorded, IF pc = "search" THEN "video_search" ELSE "video_list")
                     ELSE recorded,
                   pc)
  /\ pc' = "done"
  /\ UNCHANGED <<raw, params, cacheTime, idx, videoList, lookups, verdict, rejection>>
  /\ UNCHANGED <<rvars, hvars>>

PushVideo_front(list, v) == <<v>> \o list

\* videoList.push(transformedVideo)
PushVideo(list, v) == Append(list, v)

DetailResponse_failOnAny(list, n) ==
  IF Len(list) < n
    THEN ErrorResponse(handleValidationError("no valid video data"))
    ELSE createCachedResponse(DetailBody(list), "detail")

\* handleVideoDetail after the loop over the ids (n ids were requested)
DetailResponse(list, n) ==
  IF Len(list) = 0
    THEN ErrorResponse(handleValidationError("no valid video data"))
    ELSE createCachedResponse(DetailBody(list), "detail")

\* params.videoIds.slice(0, 10)
DetailIds(p) == Substring0(p.videoIds[1], MaxVideoIds)

\* handleVideoDetail: the lookup of id number idx settled. Its record is
\* pushed, or its error logged; then the next id is looked up or, after the
\* last one, the response is built and GET finishes.
DetailNext ==
  /\ pc = "detail"
  /\ RetryDone
  /\ LET r == rresult[1]
         id == DetailIds(params)[idx]
         newList == IF r.ok
                      THEN PushVideo(videoList, transformVideo(r.val, DetailVodId(id)))
                      ELSE videoList
     IN  /\ videoList' = newList
         /\ lookups' = Append(lookups, r.ok)
         /\ logged' = IF r.ok THEN logged
                      ELSE Append(logged, LogEntry(handleApiError(r.err), <<"Video Detail", id>>))
         /\ IF idx < Len(DetailIds(params))
              THEN /\ idx' = idx + 1
                   /\ WithRetryStart("detail", DetailArg(DetailIds(params)[idx + 1]),
                                   DetailRetryBudget, 500, 2)
                   /\ UNCHANGED <<pc, recorded, response>>
              ELSE /\ response' = <<DetailResponse(newList, Len(DetailIds(params)))>>
                   /\ recorded' = GetRecorded(
                                    IF Len(newList) = 0 THEN recorded
                                    ELSE Append(recorded, "video_detail"),
                                    "detail")
                   /\ pc' = "done"
                   /\ UNCHANGED <<idx, rvars>>
  /\ UNCHANGED <<raw, params, cacheTime, verdict, rejection>>
  /\ UNCHANGED hvars

Next ==
  \/ GetStart
  \/ ConfigRejects
  \/ ConfigResolves
  \/ ProviderStep
  \/ SearchFinish
  \/ DetailNext

Spec == Init /\ [][Next]_vars

(***************************************************************************)
(* SpecParams: MacCMSParamsProcessor on its own. A raw query is parsed     *)
(* (parseParams) and the result validated; validateParams is also applied  *)
(* to intents that parseParams cannot produce.                             *)
(***************************************************************************)
ParamAc ==
  {Absent, Some("list"), Some("videolist"), Some("detail"), Some("LIST"),
   Some("Detail"), Some("category")}
ParamWd == {Absent, Some(<<>>), Some(<<" ">>), Some(<<"a">>)}
ParamIds == {Absent, Some(<<>>), Some(<<" ">>), Some(<<"a">>)}
ParamT == {Absent, Some(<<"0">>), Some(<<"1">>)}
ParamPg ==
  {Absent, Some(<<>>), Some(<<"0">>), Some(<<"-", "1">>), Some(<<"3">>),
   Some(<<"1", "2">>), Some(<<"x">>), Some(<<"2", "x">>)}
ParamLimit ==
  {Absent, Some(<<>>), Some(<<"0">>), Some(<<"-", "5">>), Some(<<"1">>),
   Some(<<"5", "0">>), Some(<<"1", "0", "0">>), Some(<<"1", "0", "1">>),
   Some(<<"2", "0", "0">>), Some(<<"a", "b", "c">>), Some(<<"7", "x">>)}

NoQuery ==
  [ac |-> Absent, wd |-> Absent, ids |-> Absent, pg |-> Absent,
   limit |-> Absent, t |-> Absent, order |-> Absent,
   h |-> Absent, start |-> Absent, end |-> Absent]

\* keyword texts that the cleaning changes: only stripped characters,
\* stripped characters around whitespace, whitespace left behind by the
\* stripping, a run of whitespace, and 101 characters
ParamKeywords ==
  { <<"<">>, <<"<", " ", ">">>, <<"a", " ", "<", ">", " ", "b">>,
    <<" ", "a", " ", "\t", "b", " ">>, <<"<", " ", "a">>, <<"a", "&", "b">>,
    [i \in 1..(MaxKeywordLen + 1) |-> "a"],
    [i \in 1..(MaxKeywordLen + 1) |-> IF i = MaxKeywordLen THEN " " ELSE "a"] }

ParamH ==
  {Absent, Some(<<>>), Some(<<"0">>), Some(<<"2", "4">>), Some(<<"2", "4", "x">>),
   Some(<<"8", "7", "6", "0">>), Some(<<"8", "7", "6", "1">>), Some(<<"-", "1">>),
   Some(<<"x">>)}
ParamStart ==
  {Absent, Some(<<>>), Some(DateText_20240101), Some(DateText_slash),
   Some(<<"b", "a", "d">>),
   Some(<<"1", "7", "0", "0", "0", "0", "0", "0", "0", "0">>)}
ParamEnd ==
  {Absent, Some(DateText_20241231), Some(<<"b", "a", "d">>),
   Some(<<"1", "7", "0", "0", "0", "0", "0", "0", "0", "0", "1", "2", "3">>)}

\* the raw parameter objects (MacCMSParams) handed to parseParams: every
\* combination of ac, wd, ids, pg, limit and t; the keyword texts with and
\* without ac=list; every combination of h, start and end
ParamQueries ==
  [ac : ParamAc, wd : ParamWd, ids : ParamIds, pg : ParamPg,
   limit : ParamLimit, t : ParamT, order : {Absent},
   h : {Absent}, start : {Absent}, end : {Absent}]
  \cup { [NoQuery EXCEPT !.ac = a, !.wd = Some(k)] :
           a \in {Absent, Some("list")}, k \in ParamKeywords }
  \cup { [NoQuery EXCEPT !.h = hh, !.start = st, !.end = en] :
           hh \in ParamH, st \in ParamStart, en \in ParamEnd }

\* the ProcessedParams objects handed to validateParams directly
Intents ==
  [action : {"list", "detail", "search", "category"},
   keyword : {Absent, Some(<<>>), Some(<<"a">>)},
   page : {-1, 0, 1, 2},
   limit : {-1, 0, 1, 100, 101},
   categoryId : {Absent},
   videoIds : {Absent, Some(<<>>), Some(<< <<"a">> >>)},
   filters : {[order |-> "latest", timeRange |-> <<>>]}]

InitParams ==
  /\ RetryIdle /\ HarnessIdle
  /\ cacheTime = <<>> /\ idx = 0
  /\ videoList = <<>> /\ lookups = <<>> /\ logged = <<>> /\ recorded = <<>>
  /\ response = <<>> /\ verdict = <<>> /\ rejection = <<>>
  /\ \/ pc = "raw" /\ raw \in ParamQueries /\ params = <<>>
     \/ pc = "intent" /\ raw = NoQuery /\ params \in Intents

\* MacCMSParamsProcessor.parseParams(raw)
ParseRaw ==
  /\ pc = "raw"
  /\ \E now \in ClockTimes : params' = parseParams(raw, now)
  /\ pc' = "parsed"
  /\ UNCHANGED <<raw, cacheTime, idx, videoList, lookups, logged, recorded,
                 response, verdict, rejection>>
  /\ UNCHANGED <<rvars, hvars>>

\* MacCMSParamsProcessor.validateParams(params)
ValidateIntent ==
  /\ pc \in {"parsed", "intent"}
  /\ verdict' = <<validateParams(params)>>
  /\ pc' = "validated"
  /\ UNCHANGED <<raw, params, cacheTime, idx, videoList, lookups, logged,
                 recorded, response, rejection>>
  /\ UNCHANGED <<rvars, hvars>>

NextParams ==
  \/ ParseRaw
  \/ ValidateIntent

SpecParams == InitParams /\ [][NextParams]_vars

(***************************************************************************)
(* SpecClassify: MacCMSErrorHandler.handleApiError on its own, applied to  *)
(* a caught value                                                          *)
(***************************************************************************)
\* The values a catch block can hand over: error objects with every
\* combination of name, code and response.status, and undefined/null.
ClassifyInputs ==
  { MkErr(n, c, r, "", m, 0) :
      n \in {"Error", "AbortError"},
      c \in {"", "ABORT_ERR", "ENOTFOUND", "ECONNREFUSED"},
      r \in {<<>>, <<399>>, <<400>>, <<429>>, <<499>>, <<500>>, <<503>>},
      m \in {"m1", "m2"} }
  \cup {Undefined}

InitClassify ==
  /\ RetryIdle
  /\ pc = "caught" /\ raw = <<>> /\ params = <<>> /\ cacheTime = <<>> /\ idx = 0
  /\ videoList = <<>> /\ lookups = <<>> /\ logged = <<>> /\ recorded = <<>>
  /\ response = <<>> /\ verdict = <<>> /\ rejection = <<>>
  /\ thrown \in {<<e>> : e \in ClassifyInputs} /\ classified = <<>>
  /\ metrics = NoMetrics /\ counts = NoCounts /\ reqs = <<>>
  /\ keyInput = <<>> /\ cacheKey = <<>>

\* handleApiError(error) is called: it returns an ErrorDetail or throws
Classify ==
  /\ pc = "caught"
  /\ classified' =
       IF handleApiErrorThrows(thrown[1])
         THEN <<[threw |-> TRUE, detail |-> createError("", "", <<>>)]>>
         ELSE <<[threw |-> FALSE, detail |-> handleApiError(thrown[1])]>>
  /\ pc' = "classified"
  /\ UNCHANGED <<raw, params, cacheTime, idx, videoList, lookups, logged,
                 recorded, response, verdict, rejection>>
  /\ UNCHANGED <<thrown, metrics, counts, reqs, keyInput, cacheKey>>
  /\ UNCHANGED rvars

NextClassify == Classify

SpecClassify == InitClassify /\ [][NextClassify]_vars

(***************************************************************************)
(* SpecMetrics: any sequence of recordExecutionTime calls. A sample is     *)
(* tagged with its serial number among the calls for its operation (the    *)
(* duration itself plays no part in how the window is kept).               *)
(***************************************************************************)
MaxRecords == 102    \* most calls per operation

\* the operations recorded in this specification
RecordedOps == {operation, "video_search"}

\* MacCMSPerformanceMonitor.recordExecutionTime(op, startTime)
RecordCall ==
  /\ pc = "idle" /\ reqs = <<>>
  /\ \E op \in RecordedOps :
       /\ counts[op] < MaxRecords
       /\ metrics' = recordExecutionTime(metrics, op, counts[op] + 1)
       /\ counts' = [counts EXCEPT ![op] = counts[op] + 1]
  /\ UNCHANGED <<thrown, classified, reqs, keyInput, cacheKey>>
  /\ UNCHANGED <<rvars, gvars>>

NextMetrics == RecordCall

SpecMetrics == Init /\ [][NextMetrics]_vars

(***************************************************************************)
(* SpecConcurrent: several GET requests in flight at once against the one  *)
(* static metrics Map. A request runs from one await to the next without   *)
(* interruption; at an await any other request may run. The windows start  *)
(* out as earlier requests left them. A sample is tagged with the request  *)
(* that recorded it and its serial number within that request.             *)
(***************************************************************************)
MaxRequests == 3     \* requests in flight at once

\* how many samples each window holds when the requests arrive
PrefillCounts == {0, 99}

\* the window after n calls tagged 1..n
WindowAfter(n) ==
  [i \in 1..Min(n, WindowCap) |-> n - Min(n, WindowCap) + i]

NewRequest == [pos |-> "new", action |-> "none", log |-> <<>>]

InitConcurrent ==
  /\ RetryIdle /\ GetIdle
  /\ thrown = <<>> /\ classified = <<>> /\ keyInput = <<>> /\ cacheKey = <<>>
  /\ \E n \in PrefillCounts :
       /\ counts = [op \in Operations |-> n]
       /\ metrics = [op \in Operations |-> WindowAfter(n)]
  /\ reqs = [i \in 1..MaxRequests |-> NewRequest]

\* the tag of the next sample request i records
SampleTag(i, r) == 1000 * i + Len(r.log) + 1

\* request r (number i) calls recordExecutionTime for the operations ops,
\* one after the other, without an await in between, and moves on to pos
ReqRecords(i, ops, pos) ==
  LET RECURSIVE Apply(_, _, _, _)
      Apply(m, c, r, todo) ==
        IF todo = <<>> THEN <<m, c, r>>
        ELSE Apply(recordExecutionTime(m, Head(todo), SampleTag(i, r)),
                   [c EXCEPT ![Head(todo)] = c[Head(todo)] + 1],
                   [r EXCEPT !.log = Append(r.log, <<Head(todo), SampleTag(i, r)>>)],
                   Tail(todo))
      res == Apply(metrics, counts, reqs[i], ops)
  IN  /\ metrics' = res[1]
      /\ counts' = res[2]
      /\ reqs' = [reqs EXCEPT ![i] = [res[3] EXCEPT !.pos = pos]]

\* GET up to its first await: an invalid request is answered at once,
\* without a sample; a valid one awaits getCacheTime()
ReqStart ==
  /\ \E i \in 1..MaxRequests, a \in {"search", "category"}, valid \in BOOLEAN :
       /\ reqs[i].pos = "new"
       /\ reqs' = [reqs EXCEPT ![i] = [pos |-> IF valid THEN "config" ELSE "done",
                                       action |-> a, log |-> <<>>]]
  /\ UNCHANGED <<thrown, classified, metrics, counts, keyInput, cacheKey>>
  /\ UNCHANGED <<rvars, gvars>>

\* getCacheTime() rejects: the catch block records `${operation}_error`
\* (unless handleApiError itself throws first)
ReqConfigRejects ==
  /\ \E i \in 1..MaxRequests, e \in ConfigRejections :
       /\ reqs[i].pos = "config"
       /\ ReqRecords(i, IF handleApiErrorThrows(e) THEN <<>>
                        ELSE <<operation \o "_error">>, "done")
  /\ UNCHANGED <<thrown, classified, keyInput, cacheKey>>
  /\ UNCHANGED <<rvars, gvars>>

\* getCacheTime() resolves and the handler runs up to its first await:
\* handleCategoryList records 'category_list' and returns, the search
\* handler awaits the provider
ReqDispatch ==
  /\ \E i \in 1..MaxRequests :
       /\ reqs[i].pos = "config"
       /\ IF reqs[i].action = "category"
            THEN ReqRecords(i, <<"category_list">>, "resume")
            ELSE ReqRecords(i, <<>>, "provider")
  /\ UNCHANGED <<thrown, classified, keyInput, cacheKey>>
  /\ UNCHANGED <<rvars, gvars>>

\* withRetry settles: handleVideoSearch records 'video_search' on success
\* and nothing on failure, and returns
ReqProvider ==
  /\ \E i \in 1..MaxRequests, ok \in BOOLEAN :
       /\ reqs[i].pos = "provider"
       /\ ReqRecords(i, IF ok THEN <<"video_search">> ELSE <<>>, "resume")
  /\ UNCHANGED <<thrown, classified, keyInput, cacheKey>>
  /\ UNCHANGED <<rvars, gvars>>

\* GET resumes after `await handler(...)`: its two recordExecutionTime
\* calls, then the response is returned
ReqResume ==
  /\ \E i \in 1..MaxRequests :
       /\ reqs[i].pos = "resume"
       /\ ReqRecords(i, <<operation, operation \o "_" \o reqs[i].action>>, "done")
  /\ UNCHANGED <<thrown, classified, keyInput, cacheKey>>
  /\ UNCHANGED <<rvars, gvars>>

NextConcurrent ==
  \/ ReqStart
  \/ ReqConfigRejects
  \/ ReqDispatch
  \/ ReqProvider
  \/ ReqResume

SpecConcurrent == InitConcurrent /\ [][NextConcurrent]_vars

(***************************************************************************)
(* Cache keys: MacCMSCacheManager.generateCacheKey(prefix, params) and     *)
(* MacCMSParamsProcessor.generateCacheKey(params)                          *)
(***************************************************************************)
\* the printable ASCII characters in code order, from code 32 on
AsciiChars ==
  <<" ", "!", "\"", "#", "$", "%", "&", "'", "(", ")", "*", "+", ",", "-",
    ".", "/">> \o Digits \o <<":", ";", "<", "=", ">", "?", "@">> \o
  UpperLetters \o <<"[", "U+005C", "]", "^", "_", "U+0060">> \o LowerLetters \o
  <<"{", "|", "}", "~">>

\* the UTF-16 code unit (and UTF-8 byte) of an ASCII character
CharCode(c) == 31 + IndexOf(AsciiChars, c)

\* a < b in the order of Array.prototype.sort() without a comparator:
\* by code units, a proper prefix first
RECURSIVE StringLess(_, _)
StringLess(a, b) ==
  IF b = <<>> THEN FALSE
  ELSE IF a = <<>> THEN TRUE
  ELSE IF CharCode(a[1]) # CharCode(b[1]) THEN CharCode(a[1]) < CharCode(b[1])
  ELSE StringLess(Tail(a), Tail(b))

\* keys.sort(), not sorting at all
SortStrings_asGiven(keys) == keys

\* keys.sort() for distinct keys: each key goes to the place given by the
\* number of keys smaller than it
SortStrings(keys) ==
  [n \in 1..Len(keys) |->
     keys[CHOOSE i \in 1..Len(keys) :
            Cardinality({j \in 1..Len(keys) : StringLess(keys[j], keys[i])}) = n - 1]]

\* JavaScript values handed over as parameter values
Str(chars) == [t |-> "string", v |-> chars]
JsUndefined == [t |-> "undefined", v |-> <<>>]

\* String(value)
String(value) ==
  IF value.t = "undefined"
    THEN <<"u", "n", "d", "e", "f", "i", "n", "e", "d">>
    ELSE value.v

\* the decimal text of a natural number: `${n}`
RECURSIVE ToDecimal(_)
ToDecimal(n) ==
  IF n < 10 THEN <<Digits[n + 1]>>
  ELSE Append(ToDecimal(n \div 10), Digits[(n % 10) + 1])

HexDigits == Digits \o <<"A", "B", "C", "D", "E", "F">>

\* the characters encodeURIComponent leaves alone
IsUnreserved(c) ==
  IsAlnum(c) \/ c \in {"-", "_", ".", "!", "~", "*", "'", "(", ")"}

\* encodeURIComponent(str) for ASCII text
RECURSIVE encodeURIComponent(_)
encodeURIComponent(str) ==
  IF str = <<>> THEN <<>>
  ELSE (IF IsUnreserved(str[1]) THEN <<str[1]>>
        ELSE <<"%", HexDigits[(CharCode(str[1]) \div 16) + 1],
                    HexDigits[(CharCode(str[1]) % 16) + 1]>>)
       \o encodeURIComponent(Tail(str))

\* parts.join(sep)
RECURSIVE Join(_, _)
Join(parts, sep) ==
  IF parts = <<>> THEN <<>>
  ELSE IF Len(parts) = 1 THEN parts[1]
  ELSE parts[1] \o sep \o Join(Tail(parts), sep)

Base64Chars == UpperLetters \o LowerLetters \o Digits \o <<"+", "/">>

\* Buffer.from(str).toString('base64') on the bytes of str
RECURSIVE Base64(_)
Base64(bytes) ==
  IF bytes = <<>> THEN <<>>
  ELSE IF Len(bytes) = 1
    THEN <<Base64Chars[(bytes[1] \div 4) + 1],
           Base64Chars[((bytes[1] % 4) * 16) + 1], "=", "=">>
  ELSE IF Len(bytes) = 2
    THEN <<Base64Chars[(bytes[1] \div 4) + 1],
           Base64Chars[((bytes[1] % 4) * 16) + (bytes[2] \div 16) + 1],
           Base64Chars[((bytes[2] % 16) * 4) + 1], "=">>
  ELSE <<Base64Chars[(bytes[1] \div 4) + 1],
         Base64Chars[((bytes[1] % 4) * 16) + (bytes[2] \div 16) + 1],
         Base64Chars[((bytes[2] % 16) * 4) + (bytes[3] \div 64) + 1],
         Base64Chars[(bytes[3] % 64) + 1]>>
       \o Base64(SubSeq(bytes, 4, Len(bytes)))

Bytes(str) == [i \in 1..Len(str) |-> CharCode(str[i])]

\* a params object of MacCMSCacheManager.generateCacheKey: its own
\* properties as <<key, value>> pairs in insertion order, keys distinct
ObjectKeys(obj) == [i \in 1..Len(obj) |-> obj[i][1]]
Get(obj, key) == obj[CHOOSE i \in 1..Len(obj) : obj[i][1] = key][2]

\* MacCMSCacheManager.generateCacheKey(prefix, params)
ManagerCacheKey(prefix, obj) ==
  LET sorted == SortStrings(ObjectKeys(obj))
      pairs == [i \in 1..Len(sorted) |->
                  sorted[i] \o <<"=">> \o encodeURIComponent(String(Get(obj, sorted[i])))]
      sortedParams == Join(pairs, <<"&">>)
  IN  <<"m", "a", "c", "c", "m", "s", ":">> \o prefix \o <<":">>
        \o Base64(Bytes(sortedParams))

\* an optional property of the filters object
Filter(filters, name) ==
  IF name \in DOMAIN filters THEN filters[name] ELSE Absent

\* the text of an action or an order
Chars(word) ==
  CASE word = "search" -> <<"s", "e", "a", "r", "c", "h">>
    [] word = "detail" -> <<"d", "e", "t", "a", "i", "l">>
    [] word = "list" -> <<"l", "i", "s", "t">>
    [] word = "category" -> <<"c", "a", "t", "e", "g", "o", "r", "y">>
    [] word = "latest" -> <<"l", "a", "t", "e", "s", "t">>
    [] word = "longest" -> <<"l", "o", "n", "g", "e", "s", "t">>
    [] word = "shortest" -> <<"s", "h", "o", "r", "t", "e", "s", "t">>
    [] word = "top-rated" -> <<"t", "o", "p", "-", "r", "a", "t", "e", "d">>
    [] word = "most-viewed" ->
         <<"m", "o", "s", "t", "-", "v", "i", "e", "w", "e", "d">>

\* MacCMSParamsProcessor.generateCacheKey(params)
ProcessorCacheKey(p) ==
  LET keyParts ==
        << <<"a", "c", "t", "i", "o", "n", ":">> \o Chars(p.action),
           <<"p", "a", "g", "e", ":">> \o ToDecimal(p.page),
           <<"l", "i", "m", "i", "t", ":">> \o ToDecimal(p.limit) >>
        \o (IF Truthy(p.keyword)
              THEN << <<"k", "e", "y", "w", "o", "r", "d", ":">> \o p.keyword[1] >>
              ELSE <<>>)
        \o (IF p.categoryId # <<>> /\ p.categoryId[1] # 0
              THEN << <<"c", "a", "t", "e", "g", "o", "r", "y", ":">>
                        \o ToDecimal(p.categoryId[1]) >>
              ELSE <<>>)
        \o (IF p.videoIds # <<>>
              THEN << <<"i", "d", "s", ":">> \o JoinIds(p.videoIds[1]) >>
              ELSE <<>>)
        \o (IF Truthy(Filter(p.filters, "area"))
              THEN << <<"a", "r", "e", "a", ":">> \o p.filters.area[1] >>
              ELSE <<>>)
        \o (IF Truthy(Filter(p.filters, "year"))
              THEN << <<"y", "e", "a", "r", ":">> \o p.filters.year[1] >>
              ELSE <<>>)
        \o (IF p.filters.order # ""
              THEN << <<"o", "r", "d", "e", "r", ":">> \o Chars(p.filters.order) >>
              ELSE <<>>)
  IN  Join(keyParts, <<"|">>)

(***************************************************************************)
(* SpecCacheKey: each generateCacheKey called on a parameter object and    *)
(* then on a second one: the same object again, the same properties given  *)
(* in another order, or the same object with another keyword               *)
(***************************************************************************)
MaxKeyParams == 3    \* most properties of a params object

KeyPrefix == <<"s", "e", "a", "r", "c", "h">>

KeywordKey == <<"w", "d">>
ManagerKeys == {KeywordKey, <<"p", "g">>, <<"t">>}
ManagerValues ==
  {Str(<<"a">>), Str(<<"b", "&">>), JsUndefined,
   Str(<<"u", "n", "d", "e", "f", "i", "n", "e", "d">>)}

\* the params objects handed to MacCMSCacheManager.generateCacheKey
ManagerObjects ==
  UNION { { obj \in [1..n -> ManagerKeys \X ManagerValues] :
              \A i, j \in 1..n : i # j => obj[i][1] # obj[j][1] } :
          n \in 0..MaxKeyParams }

HasKey(obj, key) == \E i \in 1..Len(obj) : obj[i][1] = key

\* obj with the value of key replaced, the order of the properties kept
WithValue(obj, key, value) ==
  [i \in 1..Len(obj) |-> IF obj[i][1] = key THEN <<key, value>> ELSE obj[i]]

\* the second object of a run: the first again, its properties in another
\* order, or another value for the keyword
ManagerSeconds(obj) ==
  { o \in ManagerObjects : Len(o) = Len(obj) /\ Range(o) = Range(obj) }
  \cup { WithValue(obj, KeywordKey, v) : v \in ManagerValues }

\* the ProcessedParams objects handed to MacCMSParamsProcessor.generateCacheKey
ProcessorKeywords == {Absent, Some(<<>>), Some(<<"a">>), Some(<<"b">>)}
ProcessorObjects ==
  [action : {"search", "detail"},
   keyword : ProcessorKeywords,
   page : {1, 12},
   limit : {20},
   categoryId : {Absent, Some(0), Some(3)},
   videoIds : {Absent, Some(<<>>), Some(<< <<"a">>, <<"b">> >>)},
   filters : [order : {"latest"}, timeRange : {<<>>},
              area : {Absent, Some(<<"u", "s">>)}, year : {Absent}]]

\* a keyword that holds the delimiters of the key: 'a|category:3'
DelimiterKeyword ==
  <<"a", "|", "c", "a", "t", "e", "g", "o", "r", "y", ":", "3">>

\* the second intent of a run: the first with another keyword, another
\* category id or another id list, or with the category written into the
\* keyword
ProcessorSeconds(obj) ==
  { [obj EXCEPT !.keyword = k] : k \in ProcessorKeywords }
  \cup { [obj EXCEPT !.categoryId = c] : c \in {Absent, Some(0), Some(3)} }
  \cup { [obj EXCEPT !.videoIds = v] :
           v \in {Absent, Some(<<>>), Some(<< <<"a">>, <<"b">> >>)} }
  \cup { [obj EXCEPT !.keyword = Some(DelimiterKeyword), !.categoryId = Absent] }

InitCacheKey ==
  /\ RetryIdle
  /\ pc = "keys" /\ raw = <<>> /\ params = <<>> /\ cacheTime = <<>> /\ idx = 0
  /\ videoList = <<>> /\ lookups = <<>> /\ logged = <<>> /\ recorded = <<>>
  /\ response = <<>> /\ verdict = <<>> /\ rejection = <<>>
  /\ thrown = <<>> /\ classified = <<>>
  /\ metrics = NoMetrics /\ counts = NoCounts /\ reqs = <<>>
  /\ cacheKey = <<>>
  /\ \/ \E a \in ManagerObjects : \E b \in ManagerSeconds(a) :
          keyInput = <<[kind |-> "manager", first |-> a, second |-> b]>>
     \/ \E a \in ProcessorObjects : \E b \in ProcessorSeconds(a) :
          keyInput = <<[kind |-> "processor", first |-> a, second |-> b]>>

\* the object of the next call
NextObject == IF cacheKey = <<>> THEN keyInput[1].first ELSE keyInput[1].second

\* a call of MacCMSCacheManager.generateCacheKey(prefix, params)
ManagerGenerateCacheKey ==
  /\ pc = "keys" /\ keyInput[1].kind = "manager" /\ Len(cacheKey) < 2
  /\ cacheKey' = Append(cacheKey, ManagerCacheKey(KeyPrefix, NextObject))
  /\ UNCHANGED <<thrown, classified, metrics, counts, reqs, keyInput>>
  /\ UNCHANGED <<rvars, gvars>>

\* a call of MacCMSParamsProcessor.generateCacheKey(params)
ProcessorGenerateCacheKey ==
  /\ pc = "keys" /\ keyInput[1].kind = "processor" /\ Len(cacheKey) < 2
  /\ cacheKey' = Append(cacheKey, ProcessorCacheKey(NextObject))
  /\ UNCHANGED <<thrown, classified, metrics, counts, reqs, keyInput>>
  /\ UNCHANGED <<rvars, gvars>>

NextCacheKey ==
  \/ ManagerGenerateCacheKey
  \/ ProcessorGenerateCacheKey

SpecCacheKey == InitCacheKey /\ [][NextCacheKey]_vars

(***************************************************************************)
(* SpecClient: EpornerClient.getVideoById called directly with any id      *)
(***************************************************************************)
MaxIdLen == 3        \* longest id handed to getVideoById

ClientIdChars == {"a", "1", " ", "!"}
ClientIds == UNION { [1..n -> ClientIdChars] : n \in 0..MaxIdLen }

\* EpornerClient.isValidVideoId(id): /^[a-zA-Z0-9]+$/.test(id.trim())
isValidVideoId(id) ==
  /\ Len(Trim(id)) > 0
  /\ \A i \in 1..Len(Trim(id)) : IsAlnum(Trim(id)[i])

\* EpornerClient.getVideoById(id): the URL is built from id.trim() and
\* handed to makeRequest; fo is what fetch does with it
getVideoById(id, fo, i) == makeRequest("detail", DetailArg(Trim(id)), fo, i)

InitClient ==
  /\ GetIdle /\ HarnessIdle
  /\ rpc = "client" /\ fn = "detail"
  /\ \E id \in ClientIds : fnArg = DetailArg(id)
  /\ maxRetries = 0 /\ delay = 0 /\ backoff = 0 /\ attempt = 0
  /\ lastError = <<>> /\ rresult = <<>>
  /\ outcomes = <<>> /\ waits = <<>> /\ gaps = <<>>
  /\ sleepLeft = 0 /\ elapsed = 0 /\ calls = 0

\* the call getVideoById(fnArg.id) settles: the request went upstream
GetVideoById ==
  /\ rpc = "client"
  /\ \E fo \in {o \in FetchOutcomes : o.k = "ok" => o.shape = "video"} :
       /\ rresult' = <<getVideoById(fnArg.id, fo, 1)>>
       /\ outcomes' = <<getVideoById(fnArg.id, fo, 1)>>
  /\ calls' = calls + 1
  /\ rpc' = "settled"
  /\ UNCHANGED <<fn, fnArg, maxRetries, delay, backoff, attempt, lastError,
                 waits, gaps, sleepLeft, elapsed>>
  /\ UNCHANGED <<gvars, hvars>>

NextClient == GetVideoById

SpecClient == InitClient /\ [][NextClient]_vars

(***************************************************************************)
(* SpecPair: two requests handled side by side with the same provider      *)
(* answers. They differ either only in t, area, year, h, start and end, or *)
(* only in the value getCacheTime() of the configuration resolves with.    *)
(* A handler is taken as a whole: from the intent and what its provider    *)
(* calls settle with to the response.                                      *)
(***************************************************************************)
\* new Date().getFullYear() at the clock times of the model
CurrentYear == 2025

\* o && o.trim() for an optional text
NonEmptyTrimmed(o) == o # <<>> /\ o[1] # <<>> /\ Trim(o[1]) # <<>>

\* parseFilters(params): area and year next to order and timeRange
parseFilters(q, now) ==
  [order |-> parseOrder(q.order, Absent),
   timeRange |-> parseTimeRange(q.start, q.end, q.h, now),
   area |-> IF NonEmptyTrimmed(q.area) THEN Some(Trim(q.area[1])) ELSE Absent,
   year |-> IF /\ NonEmptyTrimmed(q.year)
               /\ ParseInt10(q.year[1]) # <<>>
               /\ ParseInt10(q.year[1])[1] >= 1900
               /\ ParseInt10(q.year[1])[1] <= CurrentYear
              THEN q.year ELSE Absent]

\* parseParams(params) with all of parseFilters
processParams(q, now) ==
  [action |-> parseParams(q, now).action,
   keyword |-> parseParams(q, now).keyword,
   page |-> parseParams(q, now).page,
   limit |-> parseParams(q, now).limit,
   categoryId |-> parseParams(q, now).categoryId,
   videoIds |-> parseParams(q, now).videoIds,
   filters |-> parseFilters(q, now)]

\* handleVideoSearch(params, _cacheTime), fo being what the fetch of the
\* provider call that settles withRetry does
handleVideoSearch(p, ct, fo) ==
  IF ~Truthy(p.keyword)
    THEN ErrorResponse(handleValidationError("keyword required"))
  ELSE IF sanitizeQuery(p.keyword[1]) = <<>>
    THEN ErrorResponse(handleValidationError("keyword invalid"))
  ELSE SearchResponse(makeRequest("search", SearchCall(p), fo, 1), p)

\* handleVideoList(params, _cacheTime)
handleVideoList(p, ct, fo) ==
  SearchResponse(makeRequest("search", ListCall(p), fo, 1), p)

\* handleVideoDetail(params, _cacheTime), every lookup settling alike
handleVideoDetail(p, ct, fo) ==
  IF p.videoIds = <<>> \/ Len(p.videoIds[1]) = 0
    THEN ErrorResponse(handleValidationError("video id required"))
    ELSE LET ids == DetailIds(p)
             found == IF fo.k = "ok" THEN ids ELSE <<>>
         IN  DetailResponse(
               [i \in 1..Len(found) |->
                  transformVideo(makeRequest("detail", DetailArg(found[i]), fo, 1).val,
                                 DetailVodId(found[i]))],
               Len(ids))

handleCategoryList_ttlFromConfig(ct) ==
  [createCachedResponse(CategoryBody(generateCategories), "category")
     EXCEPT !.maxAge = ct, !.sMaxAge = ct]

\* handleCategoryList(_cacheTime)
handleCategoryList(ct) ==
  createCachedResponse(CategoryBody(generateCategories), "category")

\* the switch of GET on params.action
Dispatch(p, ct, fo) ==
  CASE p.action = "search" -> handleVideoSearch(p, ct, fo)
    [] p.action = "detail" -> handleVideoDetail(p, ct, fo)
    [] p.action = "list" -> handleVideoList(p, ct, fo)
    [] p.action = "category" -> handleCategoryList(ct)

\* the provider calls the handler of intent p issues, in order
ProviderCalls(p) ==
  CASE p.action = "search" ->
         IF Truthy(p.keyword) /\ sanitizeQuery(p.keyword[1]) # <<>>
           THEN <<SearchCall(p)>> ELSE <<>>
    [] p.action = "list" -> <<ListCall(p)>>
    [] p.action = "detail" ->
         IF p.videoIds = <<>> THEN <<>>
         ELSE [i \in 1..Len(DetailIds(p)) |-> DetailArg(DetailIds(p)[i])]
    [] p.action = "category" -> <<>>

PairBaseQueries ==
  [ac : {Absent, Some("videolist")}, wd : {Absent, Some(<<"a">>)},
   ids : {Absent}, pg : {Absent, Some(<<"2">>)},
   limit : {Absent, Some(<<"7", "0">>)}, t : {Absent},
   order : {Absent, Some("hits")}, h : {Absent}, start : {Absent},
   end : {Absent}, area : {Absent}, year : {Absent}]

\* q with other values for the parameters that do not reach the provider
FilterVariants(q) ==
  { [q EXCEPT !.t = t, !.area = a, !.year = y, !.h = h, !.start = st] :
      t \in {Absent, Some(<<"0">>), Some(<<"1">>)},
      a \in {Absent, Some(<<"u", "s">>)},
      y \in {Absent, Some(<<"2", "0", "2", "0">>)},
      h \in {Absent, Some(<<"2", "4">>)},
      st \in {Absent, Some(DateText_20240101)} }

\* the requests handled with two configurations
ConfigQueries ==
  PairBaseQueries
  \cup { [q EXCEPT !.ac = Some("detail"), !.ids = i] :
           q \in {qq \in PairBaseQueries : qq.wd = Absent /\ qq.pg = Absent
                                            /\ qq.limit = Absent /\ qq.order = Absent
                                            /\ qq.ac = Absent},
           i \in {Absent, Some(<<"a", ",", "b">>)} }
  \cup { [q EXCEPT !.ac = Some("list")] :
           q \in {qq \in PairBaseQueries : qq.wd = Absent /\ qq.pg = Absent
                                            /\ qq.limit = Absent /\ qq.order = Absent
                                            /\ qq.ac = Absent} }

\* the values getCacheTime() of the configuration resolves with
PairCacheTimes == {300, 7200}

PairRequest(q, ct) ==
  [query |-> q, cacheTime |-> ct, pos |-> "new", params |-> <<>>,
   calls |-> <<>>, response |-> <<>>]

InitPair ==
  /\ RetryIdle
  /\ pc = "pair" /\ raw = <<>> /\ params = <<>> /\ cacheTime = <<>> /\ idx = 0
  /\ videoList = <<>> /\ lookups = <<>> /\ logged = <<>> /\ recorded = <<>>
  /\ response = <<>> /\ verdict = <<>> /\ rejection = <<>>
  /\ thrown = <<>> /\ classified = <<>>
  /\ metrics = NoMetrics /\ counts = NoCounts
  /\ keyInput = <<>> /\ cacheKey = <<>>
  /\ \/ \E q \in PairBaseQueries, ct \in PairCacheTimes :
          \E v \in FilterVariants(q) :
            reqs = <<PairRequest(q, ct), PairRequest(v, ct)>>
     \/ \E q \in ConfigQueries, c1, c2 \in PairCacheTimes :
          reqs = <<PairRequest(q, c1), PairRequest(q, c2)>>

\* GET up to the dispatch for one request: parse, validate; an invalid
\* request is answered at once, a valid one awaits getCacheTime() and its
\* handler issues its provider calls
PairStarted(r, now) ==
  LET p == processParams(r.query, now)
      v == validateParams(p)
  IN  IF v # <<>>
        THEN [r EXCEPT !.params = <<p>>, !.pos = "done",
                       !.response = <<ErrorResponse(handleValidationError(v[1]))>>]
        ELSE [r EXCEPT !.params = <<p>>, !.pos = "called",
                       !.calls = ProviderCalls(p)]

PairStart ==
  /\ pc = "pair"
  /\ \E now \in ClockTimes :
       reqs' = [i \in 1..2 |-> PairStarted(reqs[i], now)]
  /\ pc' = "pair-called"
  /\ UNCHANGED <<raw, params, cacheTime, idx, videoList, lookups, logged,
                 recorded, response, verdict, rejection>>
  /\ UNCHANGED <<thrown, classified, metrics, counts, keyInput, cacheKey>>
  /\ UNCHANGED rvars

\* the provider answers both requests in the same way and both handlers
\* and GET finish
PairAnswer ==
  /\ pc = "pair-called"
  /\ \E fo \in FetchOutcomes :
       /\ fo.k = "ok" =>
            (fo.shape = "video" <=> reqs[1].params[1].action = "detail")
       /\ reqs' = [i \in 1..2 |->
                     IF reqs[i].pos = "done" THEN reqs[i]
                     ELSE [reqs[i] EXCEPT
                             !.pos = "done",
                             !.response = <<Dispatch(reqs[i].params[1],
                                                      reqs[i].cacheTime, fo)>>]]
  /\ pc' = "pair-done"
  /\ UNCHANGED <<raw, params, cacheTime, idx, videoList, lookups, logged,
                 recorded, response, verdict, rejection>>
  /\ UNCHANGED <<thrown, classified, metrics, counts, keyInput, cacheKey>>
  /\ UNCHANGED rvars

NextPair ==
  \/ PairStart
  \/ PairAnswer

SpecPair == InitPair /\ [][NextPair]_vars

(***************************************************************************)
(* Claims about withRetry (checked under SpecRetry)                        *)
(***************************************************************************)
\* The errors the retry contract calls non-retryable: an HTTP status in
\* 400..499, or kind Validation.
NonRetryable(e) ==
  \/ (Len(e.response) > 0 /\ e.response[1] \in 400..499)
  \/ e.type = "VALIDATION_ERROR"

RetryableFailure(o) == ~o.ok /\ ~NonRetryable(o.err)

\* C4: withRetry(op, N >= 1) whose op fails with a retryable error on its
\* first k < N attempts and succeeds on attempt k+1 returns that success
\* value, and op is invoked exactly k+1 times: no state has a later invocation.
C4_SuccessAfterRetries ==
  \A j \in 1..Len(outcomes) :
    ( /\ fn = "op" /\ maxRetries >= 1 /\ j <= maxRetries
      /\ outcomes[j].ok
      /\ \A i \in 1..(j - 1) : RetryableFailure(outcomes[i]) )
    => ( /\ Len(outcomes) = j
         /\ rpc = "returned"
         /\ rresult = <<outcomes[j]>>
         /\ rresult[1].val = OpValue )

\* fails twice, then succeeds, maxAttempts = 3: three invocations
C4_Witness ==
  /\ fn = "op" /\ maxRetries = 3 /\ rpc = "returned"
  /\ Len(outcomes) = 3 /\ ~outcomes[1].ok /\ ~outcomes[2].ok /\ outcomes[3].ok

\* C5: for every maxAttempts >= 1, an attempt of op that fails with a
\* non-retryable error (HTTP status 400..499, or kind Validation) is the
\* last one: withRetry rejects with that very error and waits no more; when
\* it is the first attempt, op is invoked exactly once and no wait happens.
C5_NonRetryableFailsFast ==
  \A j \in 1..Len(outcomes) :
    ( /\ fn = "op" /\ maxRetries >= 1
      /\ ~outcomes[j].ok /\ NonRetryable(outcomes[j].err) )
    => ( /\ Len(outcomes) = j
         /\ Len(waits) = j - 1
         /\ rpc = "thrown"
         /\ rresult = <<outcomes[j]>>
         /\ rresult[1].err.id = j )

C5_Witness ==
  /\ fn = "op" /\ maxRetries = 3 /\ rpc = "thrown"
  /\ Len(outcomes) = 1 /\ outcomes[1].err.type = "VALIDATION_ERROR"
  /\ waits = <<>>

\* C6: for maxAttempts = N >= 1, when every attempt fails with a retryable
\* error, op is invoked exactly N times (withRetry does not give up before
\* the N-th attempt nor invoke op after it) and withRetry rejects with the
\* error of the N-th attempt.
C6_ExhaustedRejectsWithLast ==
  ( /\ fn = "op" /\ maxRetries >= 1 /\ outcomes # <<>>
    /\ \A i \in 1..Len(outcomes) : RetryableFailure(outcomes[i]) )
  => ( /\ Len(outcomes) <= maxRetries
       /\ Len(outcomes) < maxRetries => rpc \in {"call", "sleep"}
       /\ Len(outcomes) = maxRetries =>
            /\ rpc = "thrown"
            /\ rresult = <<outcomes[maxRetries]>>
            /\ rresult[1].err.id = maxRetries )

C6_Witness ==
  /\ fn = "op" /\ maxRetries = 3 /\ rpc = "thrown" /\ Len(outcomes) = 3
  /\ \A i \in 1..3 : RetryableFailure(outcomes[i])
  /\ rresult[1].err.id = 3

\* The transient classes of the error taxonomy: Timeout, NetworkError,
\* RateLimited, and UpstreamError with a status of 500 or more.
TransientFailure(o) ==
  /\ ~o.ok
  /\ \/ handleApiError(o.err).type \in
          {ErrorType_TIMEOUT, ErrorType_NETWORK_ERROR, ErrorType_RATE_LIMIT}
     \/ (Len(o.err.response) > 0 /\ o.err.response[1] >= 500)

\* C7: an operation that keeps failing with a transient-class error
\* (network error, timeout, HTTP 429, HTTP 5xx) is re-attempted until
\* maxAttempts invocations are used up; the error does not surface before.
C7_TransientRetriedToBudget ==
  ( /\ fn = "op" /\ maxRetries >= 1 /\ outcomes # <<>>
    /\ \A i \in 1..Len(outcomes) : TransientFailure(outcomes[i]) )
  => ( /\ Len(outcomes) < maxRetries => rpc \in {"call", "sleep"}
       /\ rpc = "thrown" => Len(outcomes) = maxRetries )

\* C10: the wait that follows the failure of attempt n-1 is
\* delay * backoff^(n-2); attempt n starts only after at least that much
\* time has passed; no wait follows the final failed attempt.
C10_ExponentialBackoff ==
  fn = "op" =>
    /\ \A n \in 2..(Len(waits) + 1) : waits[n - 1] = delay * Pow(backoff, n - 2)
    /\ Len(gaps) <= Len(waits)
    /\ \A n \in 2..(Len(gaps) + 1) : gaps[n - 1] >= waits[n - 1]
    /\ \A n \in 2..Len(outcomes) : Len(gaps) >= n - 1
    /\ Len(waits) <= Len(outcomes)
    /\ rpc # "sleep" => Len(waits) = Len(gaps)
    /\ RetryDone /\ outcomes # <<>> => Len(waits) = Len(outcomes) - 1

C10_Witness ==
  /\ fn = "op" /\ maxRetries = 3 /\ delay = 1000 /\ backoff = 2
  /\ rpc = "thrown" /\ Len(outcomes) = 3
  /\ waits = <<1000, 2000>> /\ gaps = <<1000, 2500>>

(***************************************************************************)
(* Claims about GET (checked under Spec)                                   *)
(***************************************************************************)
GetEnded == pc \in {"done", "rejected"}

ErrorEnvelope(b) ==
  /\ b.code = 0 /\ b.total = 0 /\ b.list = <<>> /\ "list" \in b.keys
  /\ "error" \in b.keys /\ Len(b.error) = 1
  /\ b.error[1].type \in {"VALIDATION_ERROR", "API_ERROR", "NETWORK_ERROR",
                          "RATE_LIMIT_ERROR", "TIMEOUT_ERROR", "UNKNOWN_ERROR"}
  /\ b.error[1].timestamp = "Date.now()"

SuccessEnvelope(b) == b.code = 1 /\ "error" \notin b.keys

\* C1: whatever the provider and getCacheTime() do (resolve, reject with any
\* value), GET ends with a response whose body is a success envelope or the
\* error envelope; it never rejects and never answers without a body.
C1_AlwaysEnvelope ==
  GetEnded =>
    /\ pc = "done" /\ rejection = <<>>
    /\ Len(response) = 1
    /\ (SuccessEnvelope(response[1].body) \/ ErrorEnvelope(response[1].body))

RECURSIVE Kept(_, _)
\* the ids whose flag is TRUE, in order
Kept(ids, flags) ==
  IF ids = <<>> \/ flags = <<>> THEN <<>>
  ELSE (IF Head(flags) THEN <<Head(ids)>> ELSE <<>>) \o Kept(Tail(ids), Tail(flags))

RequestedIds == IF params.videoIds = <<>> THEN <<>> ELSE params.videoIds[1]

\* C2: a detail request with ids i1..in of which at least one lookup
\* succeeds ends in a success envelope whose list holds exactly one record
\* per id whose lookup succeeded, in the order of the ids, with
\* total = limit = number of records; failed ids are left out.
C2_DetailPartialSuccess ==
  ( /\ pc = "done" /\ params.action = "detail"
    /\ \E i \in 1..Len(lookups) : lookups[i] )
  => LET b == response[1].body
         kept == Kept(RequestedIds, lookups)
     IN  /\ Len(lookups) = Len(RequestedIds)
         /\ Len(RequestedIds) <= 10
         /\ b.code = 1 /\ "error" \notin b.keys
         /\ Len(b.list) = Len(kept)
         /\ \A j \in 1..Len(kept) : b.list[j].vod_play_url = kept[j]
         /\ b.total = Len(kept) /\ b.limit = Len(kept)

\* ids a,b,a with the lookup of b failing and the record of b left out;
\* and ids a,b both found, in that order
C2_Witness ==
  /\ pc = "done" /\ params.action = "detail"
  /\ RequestedIds = << <<"a">>, <<"b">>, <<"a">> >>
  /\ lookups = <<TRUE, FALSE, TRUE>>
  /\ Len(response[1].body.list) = 2
  /\ response[1].body.code = 1

NoValidDataEnvelope(r) ==
  /\ r.body.code = 0
  /\ r.body.error[1].type = "VALIDATION_ERROR"
  /\ r.body.msg = "no valid video data"
  /\ r.xCacheType = "error"

AllLookupsFailed ==
  /\ Len(lookups) = Len(RequestedIds)
  /\ \A i \in 1..Len(lookups) : ~lookups[i]

ClientErrorAnswer(o) == o.fetch.k = "http" /\ o.fetch.status \in 400..499

\* C8: a provider call (search, list, id lookup) answered with an HTTP 4xx
\* status is not repeated: that request is the only one of the call, and no
\* backoff wait follows it.
C8_ClientErrorNotRetried ==
  ( /\ fn \in {"search", "detail"} /\ outcomes # <<>>
    /\ ClientErrorAnswer(outcomes[1]) )
  => /\ Len(outcomes) = 1
     /\ waits = <<>>
     /\ rpc = "thrown"

\* C9: a search or list request whose every provider attempt is aborted by
\* the timeout ends in an error envelope of type TIMEOUT_ERROR.
C9_TimeoutClassified ==
  ( /\ pc = "done" /\ params.action \in {"search", "list"}
    /\ fn = "search" /\ Len(outcomes) = maxRetries
    /\ \A i \in 1..Len(outcomes) : outcomes[i].fetch.k = "abort" )
  => /\ response[1].body.code = 0
     /\ response[1].body.error[1].type = "TIMEOUT_ERROR"

\* the ids the detail handler looks up (none unless the action is detail)
LookedUpIds ==
  IF params.action = "detail" /\ params.videoIds # <<>> THEN DetailIds(params) ELSE <<>>

C12_InvalidAnsweredAtOnce ==
  ( /\ pc # "idle"
    /\ \/ (params.action = "search" /\ ~Truthy(params.keyword))
       \/ (params.action = "detail"
             /\ (params.videoIds = <<>> \/ Len(params.videoIds[1]) = 0))
       \/ params.page < 1
       \/ params.limit < 1 \/ params.limit > 100 )
  => /\ pc = "done"
     /\ response[1].body.code = 0
     /\ response[1].body.error[1].type = "VALIDATION_ERROR"
     /\ response[1].xCacheType = "error"
     /\ response[1].xCacheTTL = 60 /\ response[1].maxAge = 60
     /\ cacheTime = <<>>
     /\ recorded = <<>>
     /\ calls = 0 /\ rpc = "idle" /\ fn = "none"

\* ids=! parses to an empty id list: rejected by validateParams
C12_Witness ==
  /\ pc = "done" /\ params.action = "detail"
  /\ params.videoIds = Some(<<>>)
  /\ verdict = << <<"video id must not be empty">> >>
  /\ response[1].body.msg = "video id must not be empty"
  /\ response[1].xCacheTTL = 60

\* C13: whenever a request ends in an error envelope, the error of that
\* envelope was passed to logError, with an operation context, before the
\* envelope was rendered, the handler-level validation errors included.
C13_ErrorsLoggedBeforeRendered ==
  ( /\ pc = "done" /\ response[1].body.code = 0 )
  => \E i \in 1..Len(logged) :
       logged[i].type = response[1].body.error[1].type

\* the categoryData body built from generateCategories()
CategoryAnswer(r) ==
  /\ r.body.code = 1
  /\ "class" \in r.body.keys
  /\ Len(r.body.class) = 1
  /\ r.body.class = generateCategories

\* C14: the query ac=category is answered with exactly one fixed category
\* record whatever the other parameters are, and the provider is not
\* queried for it.
C14_CategoryQueryFixed ==
  ( /\ pc # "idle" /\ raw.ac = Some("category") )
  => /\ calls = 0
     /\ (pc = "done" /\ cacheTime # <<>>) => CategoryAnswer(response[1])

\* C20: a request with pg=0 is rejected with a validation error about the
\* page, and a request with limit=0 with a validation error about the page
\* size.
C20_ZeroPageOrLimitRejected ==
  pc # "idle" =>
    /\ raw.pg = Some(<<"0">>) =>
         /\ pc = "done"
         /\ response[1].body.code = 0
         /\ response[1].body.error[1].type = "VALIDATION_ERROR"
         /\ response[1].body.msg = "page must be greater than 0"
    /\ raw.limit = Some(<<"0">>) =>
         /\ pc = "done"
         /\ response[1].body.code = 0
         /\ response[1].body.error[1].type = "VALIDATION_ERROR"
         /\ response[1].body.msg = "limit must be within MIN_LIMIT-MAX_LIMIT"

(***************************************************************************)
(* Claims about MacCMSParamsProcessor (checked under SpecParams)           *)
(***************************************************************************)
\* the raw query has been parsed (raw and params are both set)
Parsed == pc = "parsed" \/ (pc = "validated" /\ raw # NoQuery)

\* how the claims read the raw parameters
AcIs(q, name) == q.ac # Absent /\ ToLowerCase(q.ac[1]) = name
ExplicitList(q) == AcIs(q, "list") \/ AcIs(q, "videolist")
NonBlank(o) == o # Absent /\ Trim(o[1]) # <<>>
IdsGiven(q) == q.ids # Absent /\ q.ids[1] # <<>>

C17_ValidateExact ==
  pc = "validated" =>
    LET noKeyword == params.action = "search"
                       /\ (params.keyword = Absent \/ params.keyword[1] = <<>>)
        noIds == params.action = "detail"
                   /\ (params.videoIds = Absent \/ params.videoIds[1] = <<>>)
        badPage == params.page < 1
        badLimit == params.limit < 1 \/ params.limit > 100
    IN  /\ Len(verdict) = 1
        /\ verdict[1] # <<>> <=> (noKeyword \/ noIds \/ badPage \/ badLimit)
        /\ noKeyword => verdict[1] = <<"search keyword must not be empty">>
        /\ ~noKeyword /\ noIds => verdict[1] = <<"video id must not be empty">>
        /\ ~noKeyword /\ ~noIds /\ badPage =>
             verdict[1] = <<"page must be greater than 0">>
        /\ ~noKeyword /\ ~noIds /\ ~badPage /\ badLimit =>
             verdict[1] = <<"limit must be within MIN_LIMIT-MAX_LIMIT">>

\* a detail intent with an empty id list, page 0 and limit 101: the id
\* message is the one reported
C17_Witness ==
  /\ pc = "validated" /\ params.action = "detail"
  /\ params.videoIds = Some(<<>>) /\ params.page = 0 /\ params.limit = 101
  /\ verdict = << <<"video id must not be empty">> >>

\* the text is an integer: an optional minus sign and then digits only
IsIntegerText(str) ==
  LET u == IF str # <<>> /\ Head(str) = "-" THEN Tail(str) ELSE str
  IN  u # <<>> /\ \A i \in 1..Len(u) : u[i] \in Range(Digits)

IntegerGiven(o) == o # Absent /\ IsIntegerText(o[1])
\* the text starts with an integer (parseInt reads it and ignores the rest)
LeadingIntegerGiven(o) == o # Absent /\ ParseInt10(o[1]) # <<>>

Clamp(n, lo, hi) == IF n < lo THEN lo ELSE IF n > hi THEN hi ELSE n

\* C18 as stated: the processed limit lies in [1,100]; an integer is clamped
\* into [1,100]; a missing or non-numeric input becomes 20.
C18_LimitClamped ==
  Parsed =>
    /\ params.limit \in 1..100
    /\ IntegerGiven(raw.limit) =>
         params.limit = Clamp(ParseInt10(raw.limit[1])[1], 1, 100)
    /\ ~IntegerGiven(raw.limit) => params.limit = 20

\* C18 amended: the processed limit lies in [1,100]; an input that starts
\* with an integer is read as that integer and clamped into [1,100]; a
\* missing or empty input, or one that does not start with an integer,
\* becomes 20.
C18_LimitClampedLeadingInteger ==
  Parsed =>
    /\ params.limit \in 1..100
    /\ LeadingIntegerGiven(raw.limit) =>
         params.limit = Clamp(ParseInt10(raw.limit[1])[1], 1, 100)
    /\ ~LeadingIntegerGiven(raw.limit) => params.limit = 20

\* limit=7x is read as 7, and limit=200 becomes 100 once validated
C18_Witness ==
  \/ (pc = "parsed" /\ raw.limit = Some(<<"7", "x">>) /\ params.limit = 7)
  \/ (pc = "validated" /\ raw.limit = Some(<<"2", "0", "0">>) /\ params.limit = 100
        /\ raw.ac = Absent /\ verdict = << <<>> >>)

\* C19 as stated: the processed page is >= 1; a missing, non-numeric, zero
\* or negative input becomes 1 and a positive integer is kept.
C19_PageAtLeastOne ==
  Parsed =>
    /\ params.page >= 1
    /\ (IntegerGiven(raw.pg) /\ ParseInt10(raw.pg[1])[1] >= 1) =>
         params.page = ParseInt10(raw.pg[1])[1]
    /\ ~(IntegerGiven(raw.pg) /\ ParseInt10(raw.pg[1])[1] >= 1) => params.page = 1

\* C19 amended: the processed page is >= 1; an input that starts with a
\* positive integer is read as that integer; every other input (missing,
\* empty, not starting with an integer, zero, negative) becomes 1.
C19_PageAtLeastOneLeadingInteger ==
  Parsed =>
    /\ params.page >= 1
    /\ (LeadingIntegerGiven(raw.pg) /\ ParseInt10(raw.pg[1])[1] >= 1) =>
         params.page = ParseInt10(raw.pg[1])[1]
    /\ ~(LeadingIntegerGiven(raw.pg) /\ ParseInt10(raw.pg[1])[1] >= 1) =>
         params.page = 1

\* pg=2x is read as 2
C19_Witness ==
  /\ pc = "parsed" /\ raw.pg = Some(<<"2", "x">>) /\ params.page = 2

\* the text has two whitespace characters in a row
HasWhitespaceRun(str) ==
  \E i \in 1..(Len(str) - 1) : IsWhitespace(str[i]) /\ IsWhitespace(str[i + 1])

\* nothing is left of the text once whitespace and < > " ' & are taken out
EmptyAfterCleaning(str) ==
  \A i \in 1..Len(str) : IsWhitespace(str[i]) \/ IsHtmlChar(str[i])

\* C21: the processed keyword is undefined, or a non-empty string of at
\* most 100 characters with none of < > " ' & and no run of two or more
\* whitespace characters; a raw keyword that is empty after cleaning yields
\* undefined.
C21_KeywordCleanOrAbsent ==
  Parsed =>
    /\ \/ params.keyword = Absent
       \/ /\ Len(params.keyword[1]) >= 1
          /\ Len(params.keyword[1]) <= 100
          /\ \A i \in 1..Len(params.keyword[1]) : ~IsHtmlChar(params.keyword[1][i])
          /\ ~HasWhitespaceRun(params.keyword[1])
    /\ (raw.wd # Absent /\ EmptyAfterCleaning(raw.wd[1])) => params.keyword = Absent

\* h parses to an integer in (0, 8760]
HoursGiven(q) ==
  /\ q.h # Absent /\ ParseInt10(q.h[1]) # <<>>
  /\ ParseInt10(q.h[1])[1] > 0 /\ ParseInt10(q.h[1])[1] <= 8760

DateGiven(o) == o # Absent /\ parseDate(o[1]) # <<>>

\* C22: if h parses to an integer in (0, 8760], the time range is
\* {start = now - h hours, end = now} whatever start and end are; otherwise
\* start and end are parsed independently (each is set exactly when its
\* parameter parses to a date) and there is no time range when neither does.
C22_HoursWinOverStartEnd ==
  Parsed =>
    LET tr == params.filters.timeRange
    IN  /\ HoursGiven(raw) =>
             /\ Len(tr) = 1
             /\ Len(tr[1].end) = 1 /\ tr[1].end[1] \in ClockTimes
             /\ tr[1].start =
                  << [s |-> tr[1].end[1].s - ParseInt10(raw.h[1])[1] * 3600,
                      ms |-> tr[1].end[1].ms] >>
        /\ ~HoursGiven(raw) =>
             /\ tr = <<>> <=> (~DateGiven(raw.start) /\ ~DateGiven(raw.end))
             /\ tr # <<>> =>
                  /\ tr[1].start = (IF DateGiven(raw.start) THEN parseDate(raw.start[1]) ELSE <<>>)
                  /\ tr[1].end = (IF DateGiven(raw.end) THEN parseDate(raw.end[1]) ELSE <<>>)

\* h=24 with start and end both given: the range is the last 24 hours
C22_Witness ==
  /\ pc = "parsed" /\ raw.h = Some(<<"2", "4">>)
  /\ raw.start = Some(DateText_20240101) /\ raw.end = Some(DateText_20241231)
  /\ params.filters.timeRange =
       << [start |-> << [s |-> 1750000000 - 86400, ms |-> 250] >>,
           end |-> << [s |-> 1750000000, ms |-> 250] >>] >>

(***************************************************************************)
(* Claims about handleApiError (checked under SpecClassify)                *)
(***************************************************************************)
StatusIn(e, lo, hi) ==
  Len(e.response) = 1 /\ e.response[1] >= lo /\ e.response[1] <= hi

\* the class the priority rules give a caught value
ClassOf(e) ==
  IF e.name = "AbortError" \/ e.code = "ABORT_ERR" THEN "TIMEOUT_ERROR"
  ELSE IF e.code \in {"ENOTFOUND", "ECONNREFUSED"} THEN "NETWORK_ERROR"
  ELSE IF StatusIn(e, 429, 429) THEN "RATE_LIMIT_ERROR"
  ELSE IF StatusIn(e, 400, 499) THEN "API_ERROR"
  ELSE IF Len(e.response) = 1 /\ e.response[1] >= 500 THEN "API_ERROR"
  ELSE "UNKNOWN_ERROR"

\* C23: handleApiError is total and returns the first match of its rules
\* in priority order: abort gives Timeout; else DNS failure or connection
\* refused gives NetworkError; else 429 gives RateLimited; else 4xx gives
\* UpstreamError (bad request); else >= 500 gives UpstreamError (server
\* error); anything else gives Unknown carrying the original message.
C23_ClassifyTotalByPriority ==
  pc = "classified" =>
    LET e == thrown[1]
        d == classified[1].detail
    IN  /\ ~classified[1].threw
        /\ d.type = ClassOf(e)
        /\ (d.type = "API_ERROR" /\ StatusIn(e, 400, 499)) => d.message = "bad request"
        /\ (d.type = "API_ERROR" /\ ~StatusIn(e, 400, 499)) => d.message = "server error"
        /\ d.type = "UNKNOWN_ERROR" => d.details = <<e.message>>

(***************************************************************************)
(* Claims about MacCMSPerformanceMonitor                                   *)
(***************************************************************************)
\* the last min(n, 100) of the samples 1..n, in recording order
LastSamples(n) ==
  LET k == IF n < 100 THEN n ELSE 100
  IN  [i \in 1..k |-> n - k + i]

\* C24: after any sequence of record calls the window of every operation
\* holds at most 100 samples and equals the last min(n, 100) samples
\* recorded for it, in recording order (n being the number of calls for
\* that operation alone: calls for other operations leave it unchanged).
C24_WindowIsLastHundred ==
  \A op \in Operations :
    /\ Len(metrics[op]) <= 100
    /\ metrics[op] = LastSamples(counts[op])

\* 102 samples recorded for one operation: the first two were evicted, and
\* the window of the other operation still holds its single sample
C24_Witness ==
  /\ reqs = <<>>
  /\ counts[operation] = 102 /\ Len(metrics[operation]) = 100
  /\ metrics[operation][1] = 3 /\ metrics[operation][100] = 102
  /\ metrics["video_search"] = <<1>>

(***************************************************************************)
(* Claims about concurrent requests (checked under SpecConcurrent)         *)
(***************************************************************************)
\* the tags of the samples the requests recorded for op, from their own logs
TagsFor(op) ==
  UNION { { reqs[i].log[j][2] :
              j \in {j \in 1..Len(reqs[i].log) : reqs[i].log[j][1] = op} } :
          i \in 1..Len(reqs) }

\* the number of record calls the requests made for op
CallsFor(op) ==
  LET RECURSIVE Sum(_)
      Sum(i) == IF i = 0 THEN 0
                ELSE Sum(i - 1) +
                     Cardinality({j \in 1..Len(reqs[i].log) : reqs[i].log[j][1] = op})
  IN  Sum(Len(reqs))

\* C25: when several requests interleave at their await points, every record
\* call has appended exactly one sample to its operation's window: the
\* window ends with the samples of the requests' calls, each once, it
\* starts with the newest of the samples that were there before, nothing is
\* lost while fewer than 100 samples were recorded, and no window ever
\* holds more than 100 samples.
C25_ConcurrentAppendsConsistent ==
  \A op \in Operations :
    LET w == metrics[op]
        k == CallsFor(op)
        before == counts[op] - k
        kept == Len(w) - k
    IN  /\ Len(w) <= 100
        /\ Len(w) = IF counts[op] < 100 THEN counts[op] ELSE 100
        /\ Cardinality(TagsFor(op)) = k
        /\ { w[j] : j \in (kept + 1)..Len(w) } = TagsFor(op)
        /\ \A j \in 1..kept : w[j] = before - kept + j

\* three requests ran to the end interleaved: the second one's samples were
\* recorded before the first one's, and the full window dropped its oldest
C25_Witness ==
  /\ Len(reqs) >= 3
  /\ \A i \in 1..3 : reqs[i].pos = "done"
  /\ counts[operation] = 102
  /\ Len(metrics[operation]) = 100
  /\ metrics[operation][1] = 3
  /\ metrics[operation][98] \div 1000 = 2
  /\ metrics[operation][99] \div 1000 = 3
  /\ metrics[operation][100] \div 1000 = 1

(***************************************************************************)
(* Claims about the samples and headers of one request (checked under Spec)*)
(***************************************************************************)
\* how often op occurs among the recorded operations
Times(op) == Cardinality({i \in 1..Len(recorded) : recorded[i] = op})

PassedValidation == verdict = <<<<>>>>

\* C26 as stated: every request that passed validation and was answered has
\* recorded one sample for the whole dispatch and one for the sub-operation
\* of its action.
C26_TwoSamplesPerValidRequest ==
  pc \in {"done", "rejected"} /\ PassedValidation =>
    /\ Times(operation) = 1
    /\ Times(operation \o "_" \o params.action) = 1

\* C26 amended: a request that passed validation and whose handler was
\* dispatched and returned (with a success or an error envelope) has
\* recorded, as its last two samples and once each, one for the whole
\* dispatch and one for the sub-operation of its action, and has its
\* response; a request whose getCacheTime() rejected has recorded only the
\* error sample when it was answered, and nothing when GET itself rejected.
C26_TwoSamplesPerDispatchedRequest ==
  /\ pc = "done" /\ PassedValidation /\ cacheTime # <<>> =>
       /\ response # <<>>
       /\ Len(recorded) >= 2
       /\ recorded[Len(recorded) - 1] = operation
       /\ recorded[Len(recorded)] = operation \o "_" \o params.action
       /\ Times(operation) = 1
       /\ Times(operation \o "_" \o params.action) = 1
  /\ pc = "done" /\ PassedValidation /\ cacheTime = <<>> =>
       recorded = <<operation \o "_error">>
  /\ pc = "rejected" => recorded = <<>>
  /\ response = <<>> => Times(operation) = 0

\* a search whose provider call failed: answered with an error envelope,
\* both samples recorded and no 'video_search' sample
C26_Witness ==
  /\ pc = "done" /\ PassedValidation /\ cacheTime # <<>>
  /\ params.action = "search"
  /\ rresult # <<>> /\ ~rresult[1].ok
  /\ response[1].body.code = 0
  /\ recorded = <<operation, operation \o "_search">>

(***************************************************************************)
(* Claims about cache keys (checked under SpecCacheKey)                    *)
(***************************************************************************)
BothKeyed == Len(cacheKey) = 2
First == keyInput[1].first
Second == keyInput[1].second

\* the keyword of a params object, <<>> when it has none
KeywordOf(obj) ==
  IF keyInput[1].kind = "processor" THEN obj.keyword
  ELSE IF HasKey(obj, KeywordKey) THEN <<Get(obj, KeywordKey)>> ELSE <<>>

\* the two objects differ in the value of the keyword and in nothing else
DifferOnlyInKeyword ==
  /\ First # Second
  /\ IF keyInput[1].kind = "processor"
       THEN \E k \in ProcessorKeywords : Second = [First EXCEPT !.keyword = k]
       ELSE /\ HasKey(First, KeywordKey)
            /\ \E v \in ManagerValues : Second = WithValue(First, KeywordKey, v)

\* the same key/value pairs, in whatever order
SamePairs ==
  IF keyInput[1].kind = "processor" THEN First = Second
  ELSE Range(First) = Range(Second)

\* the keyword of obj is a string (not absent, not undefined)
KeywordIsString(obj) ==
  /\ KeywordOf(obj) # <<>>
  /\ keyInput[1].kind = "manager" => KeywordOf(obj)[1].t = "string"

\* C27 as stated: the same pairs give the same key, in any order and on
\* every call; objects that differ only in the keyword give different keys.
C27_KeyDeterministicOrderFreeKeywordSensitive ==
  BothKeyed =>
    /\ SamePairs => cacheKey[1] = cacheKey[2]
    /\ DifferOnlyInKeyword => cacheKey[1] # cacheKey[2]

\* C27 amended: the same pairs give the same key, in any order and on every
\* call; objects that differ only in the keyword give different keys when
\* both keywords are strings.
C27_KeyDeterministicOrderFreeStringKeywordSensitive ==
  BothKeyed =>
    /\ SamePairs => cacheKey[1] = cacheKey[2]
    /\ DifferOnlyInKeyword /\ KeywordIsString(First) /\ KeywordIsString(Second)
         => cacheKey[1] # cacheKey[2]

\* three properties given in two different orders, keyed alike; the values
\* include one that encodeURIComponent has to escape
C27_Witness ==
  /\ BothKeyed
  /\ keyInput[1].kind = "manager"
  /\ Len(First) = 3 /\ First # Second /\ Range(First) = Range(Second)
  /\ Get(First, KeywordKey) = Str(<<"b", "&">>)
  /\ cacheKey[1] = cacheKey[2]

\* the fixed table of TTLs by cache type, in seconds
TtlFor(type) ==
  IF type = "search" THEN 600
  ELSE IF type = "detail" THEN 1800
  ELSE IF type = "category" THEN 3600
  ELSE IF type = "error" THEN 60
  ELSE 300

\* C28: every response carries one TTL: max-age and s-maxage of
\* Cache-Control, s-maxage of CDN-Cache-Control and of
\* Vercel-CDN-Cache-Control and X-Cache-TTL all equal the table's TTL of
\* the response's X-Cache-Type.
C28_OneTtlPerResponse ==
  response # <<>> =>
    LET r == response[1]
    IN  /\ r.xCacheType \in {"default", "search", "detail", "category", "error"}
        /\ r.maxAge = TtlFor(r.xCacheType)
        /\ r.sMaxAge = TtlFor(r.xCacheType)
        /\ r.cdnSMaxAge = TtlFor(r.xCacheType)
        /\ r.vercelSMaxAge = TtlFor(r.xCacheType)
        /\ r.xCacheTTL = TtlFor(r.xCacheType)

\* a detail response: 1800 seconds everywhere, whatever getCacheTime() of
\* the configuration resolved with
C28_Witness ==
  /\ pc = "done" /\ response # <<>>
  /\ cacheTime = <<7200>>
  /\ response[1].body.code = 1
  /\ response[1].xCacheType = "detail"
  /\ response[1].cdnSMaxAge = 1800
  /\ response[1].xCacheTTL = 1800

(***************************************************************************)
(* Claims about the success envelope (checked under Spec)                  *)
(***************************************************************************)
\* GET answered a search or a list with a success envelope
PageAnswered ==
  /\ pc = "done" /\ response # <<>>
  /\ params.action \in {"search", "list"}
  /\ response[1].body.code = 1

\* what the provider answered with
ProviderPage == rresult[1].val

\* the least number of pages of size limit that hold total records
PagesFor(total, limit) ==
  CHOOSE n \in 0..total : n * limit >= total /\ (n = 0 \/ (n - 1) * limit < total)

\* limit, total, pagecount and the length of the list of a page answer
TotalsAsStated ==
  LET b == response[1].body
  IN  /\ b.limit = params.limit
      /\ b.total = ProviderPage.total_count
      /\ b.pagecount = IF ProviderPage.total_pages # 0
                         THEN ProviderPage.total_pages
                         ELSE PagesFor(ProviderPage.total_count, params.limit)
      /\ Len(b.list) <= params.limit

\* C29 as stated: a successful search or list answer to page p with limit
\* L has limit = L, page = p, total = the provider's total count,
\* pagecount = the provider's page count when supplied and otherwise
\* ceil(total / L), and at most L records.
C29_PageTotals ==
  PageAnswered =>
    /\ TotalsAsStated
    /\ response[1].body.page = params.page

\* C29 amended: the same, except that page is the current page the provider
\* reports when it reports one, and p otherwise.
C29_PageTotalsProviderPage ==
  PageAnswered =>
    /\ TotalsAsStated
    /\ response[1].body.page = IF ProviderPage.current_page # 0
                                 THEN ProviderPage.current_page
                                 ELSE params.page

\* page 2 with limit 10 of 25 matches, the provider not supplying its page
\* count: page 2, limit 10, total 25, pagecount 3, 10 records
C29_Witness ==
  /\ PageAnswered
  /\ params.action = "search"
  /\ params.page = 2 /\ params.limit = 10
  /\ ProviderPage.total_count = 25 /\ ProviderPage.total_pages = 0
  /\ response[1].body.page = 2
  /\ response[1].body.limit = 10
  /\ response[1].body.total = 25
  /\ response[1].body.pagecount = 3
  /\ Len(response[1].body.list) = 10

\* C30: every success response (code = 1), whatever the action, has the
\* fields code, msg, page, pagecount, limit, total and list, and no other
\* field than these and class.
C30_SuccessHasAllFields ==
  response # <<>> /\ response[1].body.code = 1 =>
    /\ (BaseKeys \cup {"list"}) \subseteq response[1].body.keys
    /\ response[1].body.keys \subseteq (BaseKeys \cup {"list", "class"})

(***************************************************************************)
(* Claims about the status and the rejection of requests (under Spec)      *)
(***************************************************************************)
\* the provider call of a search or list request failed
ProviderCallFailed ==
  /\ params.action \in {"search", "list"}
  /\ cacheTime # <<>>
  /\ rresult # <<>> /\ ~rresult[1].ok

\* C31: an answered request has status 400 when it failed parameter
\* validation and status 500 when its provider call failed, and status 200
\* only when it succeeded (code = 1).
C31_ErrorStatusNot200 ==
  pc = "done" /\ response # <<>> =>
    /\ verdict # <<<<>>>> => response[1].status = 400
    /\ verdict = <<<<>>>> /\ ProviderCallFailed => response[1].status = 500
    /\ response[1].status = 200 => response[1].body.code = 1

\* the ac values determineAction knows
SupportedAc == {"list", "videolist", "detail"}

\* C32: a request whose ac value is not a supported action is answered with
\* an error envelope: code = 0 and an error object.
C32_UnsupportedActionRejected ==
  ( /\ pc = "done" /\ response # <<>>
    /\ raw.ac # Absent /\ ToLowerCase(raw.ac[1]) \notin SupportedAc )
  => /\ response[1].body.code = 0
     /\ "error" \in response[1].body.keys

(***************************************************************************)
(* Claims about the provider client (checked under SpecClient)             *)
(***************************************************************************)
\* C33: getVideoById called with an id that is empty, blank or not
\* alphanumeric fails with a validation error and sends nothing upstream.
C33_BadIdRejectedByClient ==
  rpc = "settled" /\ ~isValidVideoId(fnArg.id) =>
    /\ calls = 0
    /\ ~rresult[1].ok
    /\ rresult[1].err.type = ErrorType_VALIDATION

(***************************************************************************)
(* Claims about what a handler does with a validated intent (under Spec)   *)
(***************************************************************************)
\* C34: a validated intent is never rejected by its handler's own checks:
\* a dispatched search intent has queried the provider when it is answered,
\* and a dispatched detail intent has looked up at least one id.
C34_ValidatedIntentReachesProvider ==
  pc = "done" /\ PassedValidation /\ cacheTime # <<>> =>
    /\ params.action = "search" => fn = "search" /\ calls >= 1
    /\ params.action = "detail" => fn = "detail" /\ Len(lookups) >= 1

(***************************************************************************)
(* Claims about withRetry with any budget (checked under SpecRetry)        *)
(***************************************************************************)
\* C35: whatever maxRetries is, zero and negative values included, a
\* finished withRetry has invoked the operation at least once, and when it
\* rejected, the rejection is an error one of the invocations threw, never
\* undefined.
C35_InvokedAtLeastOnce ==
  RetryDone =>
    /\ calls >= 1
    /\ rpc = "thrown" =>
         /\ ~rresult[1].err.nullish
         /\ \E i \in 1..Len(outcomes) :
              ~outcomes[i].ok /\ outcomes[i].err = rresult[1].err

(***************************************************************************)
(* Claims about the cache category of a response (checked under Spec)      *)
(***************************************************************************)
\* the cache category of the success response of an action
StampOf(action) ==
  IF action \in {"search", "list"} THEN "search"
  ELSE IF action = "detail" THEN "detail"
  ELSE "category"

\* C36: a response is stamped 'error' exactly when its body has code = 0; a
\* success body is stamped 'search' for the search and the list action,
\* 'detail' for detail and 'category' for category; no response is stamped
\* 'default'.
C36_StampFollowsOutcome ==
  response # <<>> =>
    /\ response[1].xCacheType = "error" <=> response[1].body.code = 0
    /\ response[1].body.code \in {0, 1}
    /\ response[1].body.code = 1 =>
         response[1].xCacheType = StampOf(params.action)
    /\ response[1].xCacheType # "default"

\* a list request answered with a success body stamped 'search'
C36_Witness ==
  /\ pc = "done" /\ response # <<>>
  /\ params.action = "list"
  /\ response[1].body.code = 1
  /\ response[1].xCacheType = "search"
  /\ response[1].xCacheTTL = 600

(***************************************************************************)
(* Claims about the intent cache key (checked under SpecCacheKey)          *)
(***************************************************************************)
\* C37: two processed intents that differ in action, page, limit, keyword,
\* categoryId, videoIds, area, year or order never get the same key from
\* MacCMSParamsProcessor.generateCacheKey.
C37_IntentKeyInjective ==
  ( /\ BothKeyed
    /\ keyInput[1].kind = "processor"
    /\ First # Second )
  => cacheKey[1] # cacheKey[2]

(***************************************************************************)
(* Claims about two requests side by side (checked under SpecPair)         *)
(***************************************************************************)
PairParams(i) == reqs[i].params[1]

\* both requests are search or list requests that passed validation
BothPageRequests ==
  /\ pc \in {"pair-called", "pair-done"}
  /\ \A i \in 1..2 : PairParams(i).action \in {"search", "list"}

\* the two requests agree on everything but t, area, year, h, start and end
SameButFilters ==
  \A f \in {"ac", "wd", "ids", "pg", "limit", "order"} :
    reqs[1].query[f] = reqs[2].query[f]

\* C38: two search or list requests that differ only in t, area, year, h,
\* start or end issue the same provider calls and, the provider answering
\* alike, return the same record list; the call of a list request asks for
\* 'popular' with per_page = min(limit, 60).
C38_ProviderCallIgnoresFilters ==
  BothPageRequests /\ SameButFilters =>
    /\ reqs[1].calls = reqs[2].calls
    /\ \A i \in 1..2 :
         PairParams(i).action = "list" =>
           /\ Len(reqs[i].calls) = 1
           /\ reqs[i].calls[1].query = <<"p", "o", "p", "u", "l", "a", "r">>
           /\ reqs[i].calls[1].perPage =
                (IF PairParams(i).limit < 60 THEN PairParams(i).limit ELSE 60)
           /\ reqs[i].calls[1].page = PairParams(i).page
    /\ pc = "pair-done" =>
         /\ reqs[1].response[1].body.list = reqs[2].response[1].body.list
         /\ reqs[1].response[1].body.code = reqs[2].response[1].body.code

\* a list request for limit 70, and the same with t, area, year, h and
\* start given: one call for 'popular' with 60 per page each, and the same
\* records in both answers
C38_Witness ==
  /\ pc = "pair-done"
  /\ reqs[1].query.t = Absent /\ reqs[2].query.t = Some(<<"1">>)
  /\ PairParams(2).categoryId = <<1>>
  /\ PairParams(2).filters.area # Absent
  /\ PairParams(2).filters.year # Absent
  /\ PairParams(2).filters.timeRange # <<>>
  /\ PairParams(1).filters.timeRange = <<>>
  /\ PairParams(1).action = "list" /\ PairParams(2).action = "list"
  /\ PairParams(1).limit = 70
  /\ reqs[1].calls = reqs[2].calls
  /\ reqs[1].calls[1].perPage = 60
  /\ reqs[1].response[1].body.code = 1
  /\ Len(reqs[1].response[1].body.list) > 0
  /\ reqs[1].response[1].body.list = reqs[2].response[1].body.list

\* the two requests are the same request under two configurations
SameRequest == reqs[1].query = reqs[2].query

\* C39: the value getCacheTime() of the configuration resolves with does
\* not reach the response: the same request with the same provider answers
\* gets the same body and the same cache headers for any two values, and
\* the TTL is the one of the fixed table.
C39_ConfigTimeIgnored ==
  pc = "pair-done" /\ SameRequest =>
    /\ reqs[1].response = reqs[2].response
    /\ \A i \in 1..2 :
         reqs[i].response[1].maxAge = TtlFor(reqs[i].response[1].xCacheType)

\* a category request answered under 300 and under 7200: 3600 in both
C39_Witness ==
  /\ pc = "pair-done" /\ SameRequest
  /\ reqs[1].cacheTime = 300 /\ reqs[2].cacheTime = 7200
  /\ PairParams(1).action = "category"
  /\ reqs[1].response[1].body.code = 1
  /\ reqs[1].response[1].maxAge = 3600
  /\ reqs[2].response[1].maxAge = 3600
  /\ reqs[1].response = reqs[2].response

====
